---- MODULE Spec2Model ----
(***************************************************************************)
(* ink-visual-testing: the snapshot pipeline (PTY capture, normalisation,  *)
(* template generation, output file), the visual regression helpers        *)
(* (visualTest, expectVisualSnapshot, comparePng) and the pure font-stack  *)
(* and normalisation functions.                                            *)
(*                                                                         *)
(* A JavaScript string is a sequence of code units; a code unit is a       *)
(* one-element name ("m", " ", ",", "LF", "ESC", "ZWJ", "VS16").           *)
(***************************************************************************)
EXTENDS Integers, Sequences, FiniteSets, TLC

\* ------------------------------------------------------------------ bounds

\* Most data events one PTY child delivers in a run.
MaxChunks == 2

\* How many withEmojiFontConfig calls one process makes.
MaxCalls == 2
\* Most test cases of one batch, and the largest concurrency a caller passes.
MaxTests == 4
MaxConcurrency == 2
\* Longest caller font-family string / captured string given to the pure functions.
MaxFamilyLen == 5
MaxDataLen == 4
\* Pixels of an image that the model tracks individually.
NPix == 2

\* ------------------------------------------------------- JavaScript values

\* An optional value (a property that may be undefined) is a set of at most one
\* element: {} is undefined, {v} is the value v.
Undefined == {}
Some(v) == {v}
IsDefined(o) == o /= {}
Get(o) == CHOOSE v \in o : TRUE

\* a destructuring default `x = d`, and `x ?? d` on a value that is never null
Default(o, d) == IF o = {} THEN d ELSE Get(o)

\* truthiness of an optional string kept as a sequence of code units
TruthySeq(o) == o /= {} /\ Get(o) /= <<>>

\* truthiness of an optional path (a TLA+ string)
TruthyPath(o) == o /= {} /\ Get(o) /= ""

\* An exit code as node-pty reports it: a number, null or undefined.
Num(n) == [kind |-> "number", n |-> n]
JsNull == [kind |-> "null", n |-> 0]
JsUndefined == [kind |-> "undefined", n |-> 0]

\* truthiness of an exit code
TruthyCode(c) == c.kind = "number" /\ c.n /= 0

VS16 == "VS16"

\* ------------------------------------------------------------ normalisation

RECURSIVE RemoveAll(_, _)
\* s.replace(/<unit>/g, ''): scan left to right, dropping every match
RemoveAll(s, unit) ==
  IF s = <<>> THEN <<>>
  ELSE IF Head(s) = unit THEN RemoveAll(Tail(s), unit)
  ELSE <<Head(s)>> \o RemoveAll(Tail(s), unit)

\* a mutant of cleanAnsiData: String.prototype.replace with a non-global
\* pattern removes the first match only
RECURSIVE RemoveFirst(_, _)
RemoveFirst(s, unit) ==
  IF s = <<>> THEN <<>>
  ELSE IF Head(s) = unit THEN Tail(s)
  ELSE <<Head(s)>> \o RemoveFirst(Tail(s), unit)

cleanAnsiData_first(data) == RemoveFirst(data, VS16)

cleanAnsiData(data) == RemoveAll(data, VS16)

RECURSIVE MatchCount(_, _)
\* (s.match(/<unit>/g) || []).length
MatchCount(s, unit) ==
  IF s = <<>> THEN 0
  ELSE (IF Head(s) = unit THEN 1 ELSE 0) + MatchCount(Tail(s), unit)

\* --------------------------------------------------------------- font stack

RECURSIVE SplitFrom(_, _, _)
\* s.split(sep): the pieces between separators, empty pieces kept
SplitFrom(s, sep, cur) ==
  IF s = <<>> THEN <<cur>>
  ELSE IF Head(s) = sep THEN <<cur>> \o SplitFrom(Tail(s), sep, <<>>)
  ELSE SplitFrom(Tail(s), sep, Append(cur, Head(s)))

Split(s, sep) == SplitFrom(s, sep, <<>>)

RECURSIVE TrimStart(_)
TrimStart(s) ==
  IF s /= <<>> /\ Head(s) = " " THEN TrimStart(Tail(s)) ELSE s

RECURSIVE TrimEnd(_)
TrimEnd(s) ==
  IF s /= <<>> /\ s[Len(s)] = " " THEN TrimEnd(SubSeq(s, 1, Len(s) - 1)) ELSE s

\* String.prototype.trim
Trim(s) == TrimEnd(TrimStart(s))

\* families.map(family => family.trim())
TrimEach(families) == [i \in 1..Len(families) |-> Trim(families[i])]

\* the members of a sequence (a Set built from it)
Range(seq) == {seq[i] : i \in 1..Len(seq)}

NonEmpty(family) == family /= <<>>

RECURSIVE PushUnseen(_, _)
\* the for loop of normaliseFamilies: push each family not seen so far
PushUnseen(ordered, families) ==
  IF families = <<>> THEN ordered
  ELSE IF Head(families) \in Range(ordered) THEN PushUnseen(ordered, Tail(families))
  ELSE PushUnseen(Append(ordered, Head(families)), Tail(families))

\* a mutant of normaliseFamilies: the historical defect, the caller's entries
\* appended without the seen check
normaliseFamilies_dup(baseFamily, emojiFamily, bundledBaseFamily) ==
  LET families == SelectSeq(TrimEach(Split(baseFamily, ",")), NonEmpty)
      withEmoji == IF TruthySeq(emojiFamily) THEN <<Get(emojiFamily)>> ELSE <<>>
      withBase ==
        IF TruthySeq(bundledBaseFamily) /\ Get(bundledBaseFamily) \notin Range(withEmoji)
        THEN Append(withEmoji, Get(bundledBaseFamily))
        ELSE withEmoji
  IN withBase \o families

normaliseFamilies(baseFamily, emojiFamily, bundledBaseFamily) ==
  LET families == SelectSeq(TrimEach(Split(baseFamily, ",")), NonEmpty)
      withEmoji == IF TruthySeq(emojiFamily) THEN <<Get(emojiFamily)>> ELSE <<>>
      withBase ==
        IF TruthySeq(bundledBaseFamily) /\ Get(bundledBaseFamily) \notin Range(withEmoji)
        THEN Append(withEmoji, Get(bundledBaseFamily))
        ELSE withEmoji
  IN PushUnseen(withBase, families)

\* ------------------------------------------------------------------- state

VARIABLES
  pure,               \* a call of one of the pure functions: its arguments and result
  calls,              \* the withEmojiFontConfig calls of one process
  page,               \* the template's page in the browser
  batch,              \* a batchVisualTest / batchVisualTestParallel run
  entry,              \* the exported function this run calls
  callOpts,           \* the options the caller gave to fixedPtyRender
  opts,               \* the NodePtySnapshotOptions createSnapshotFromPty receives
  pc,                 \* where createSnapshotFromPty stands
  error,              \* what createSnapshotFromPty rejected with
  pty,                \* the cols and rows the PTY was spawned with
  childAlive,         \* the child process is running
  exitEvent,          \* the child's exit event: none, queued or handled, and its code
  timer,              \* the timeout timer: none, armed, fired or cleared, and its delay
  promise,            \* the capture promise: pending, resolved or rejected
  killCalls,          \* how many times pty.kill() was called
  arrived,            \* the data chunks in the order their events arrived
  captured,           \* the `captured` buffer
  cleanedData,        \* `cleanedData`
  vsCount,            \* `vsCount`
  currentFontConfig,  \* the module-level slot of terminalScreenshotFontPatch
  renderOptions,      \* the options renderScreenshot was called with
  terminal,           \* what the generated template builds its Terminal with
  buffer,             \* the image buffer renderScreenshot resolved with
  files,              \* the image files on disk: output, baseline, diff
  dirs,               \* the directories that exist
  tempFiles,          \* the temporary files of visualTest that exist
  cmp,                \* the call of comparePng
  vt,                 \* the call of visualTest
  ev                  \* the call of expectVisualSnapshot

auxVars == <<pure, calls, page, batch>>
ctlVars == <<auxVars, entry, callOpts, opts, pc, error>>
capVars == <<pty, childAlive, exitEvent, timer, promise, killCalls, arrived, captured>>
renVars == <<cleanedData, vsCount, currentFontConfig, renderOptions, terminal, buffer>>
fsVars == <<files, dirs, tempFiles>>
testVars == <<cmp, vt, ev>>
vars == <<ctlVars, capVars, renVars, fsVars, testVars>>

\* ------------------------------------------------------------ program values

\* Family names, abbreviated to their initials (the space of a multi-word name kept).
DejaVuSansMono == <<"D", " ", "M">>
NotoSansMonoCJK == <<"N", " ", "C">>
monospace == <<"m">>
InkSnapshotEmojiMono == <<"E">>
InkSnapshotBaseMono == <<"B">>

\* createSnapshotFromPty's defaults
DefaultCols == 80
DefaultRows == 24
DefaultTimeout == 30000
DefaultFontFamily == DejaVuSansMono \o <<",", " ">> \o NotoSansMonoCJK \o <<",", " ">> \o monospace

\* fixedPtyRender's defaults
FixedCols == 120
FixedRows == 60

\* The code units a child writes: text, a line feed, an escape sequence (ESC m),
\* the variation selector.
Chunks == {<<"m">>, <<"ESC", "m", "LF">>, <<"m", VS16>>}

\* The exit codes node-pty reports.
ExitCodes == {Num(0), Num(1), JsNull, JsUndefined}

\* ------------------------------------------------------ template dimensions

RECURSIVE StripAnsi(_)
\* line.replaceAll(new RegExp(pattern, 'g'), ''): over the code units of the model
\* the pattern matches exactly ESC followed by the final byte m
StripAnsi(line) ==
  IF line = <<>> THEN <<>>
  ELSE IF Len(line) >= 2 /\ line[1] = "ESC" /\ line[2] = "m" THEN StripAnsi(Tail(Tail(line)))
  ELSE <<Head(line)>> \o StripAnsi(Tail(line))

RECURSIVE MaxOf(_)
MaxOf(ns) ==
  IF Len(ns) = 1 THEN ns[1]
  ELSE LET m == MaxOf(Tail(ns)) IN IF ns[1] > m THEN ns[1] ELSE m

LineLength(line) == Len(StripAnsi(line))

\* the size computed from the ANSI output: the line count and the longest line
DimsFromData(data) ==
  LET lines == Split(data, "LF")
  IN [cols |-> MaxOf([i \in 1..Len(lines) |-> LineLength(lines[i])]), rows |-> Len(lines)]

\* ---------------------------------------------------- createSnapshotFromPty

NoError == [kind |-> "none", timeout |-> 0, code |-> JsUndefined, command |-> ""]
TimeoutError(ms, command) ==
  [kind |-> "timeout", timeout |-> ms, code |-> JsUndefined, command |-> command]
ProcessExitError(code, command) ==
  [kind |-> "exit", timeout |-> 0, code |-> code, command |-> command]
RenderError == [kind |-> "render", timeout |-> 0, code |-> JsUndefined, command |-> ""]

\* a mutant of AwaitThrows: the rejection is swallowed and the function goes on
\* with what was captured so far
AwaitThrows_salvage == "resumed"

\* the await of a rejected capture promise throws out of createSnapshotFromPty
AwaitThrows == "failed"

\* reject(err) of the capture promise: a settled promise ignores it; the awaiting
\* function rejects with the same error
Reject(err) ==
  /\ promise' = IF promise = "pending" THEN "rejected" ELSE promise
  /\ pc' = IF promise = "pending" THEN AwaitThrows ELSE pc
  /\ error' = IF promise = "pending" THEN err ELSE error

\* a mutant of Resolve: a promise that takes a second settlement
Resolve_again ==
  /\ promise' = "resolved"
  /\ pc' = "resumed"
  /\ error' = error

\* resolve() of the capture promise
Resolve ==
  /\ promise' = IF promise = "pending" THEN "resolved" ELSE promise
  /\ pc' = IF promise = "pending" THEN "resumed" ELSE pc
  /\ error' = error

\* the options destructured with their defaults
EffectiveCols(o) == Default(o.cols, DefaultCols)
EffectiveRows(o) == Default(o.rows, DefaultRows)
EffectiveTimeout(o) == Default(o.timeout, DefaultTimeout)
EffectiveFontFamily(o) == Default(o.fontFamily, DefaultFontFamily)

\* a mutant of SpawnDims: the PTY sized from fixedPtyRender's defaults
SpawnDims_fixed(o) == [cols |-> FixedCols, rows |-> FixedRows]

\* the size handed to node-pty's spawn
SpawnDims(o) == [cols |-> EffectiveCols(o), rows |-> EffectiveRows(o)]

\* a mutant of ArmsTimer: no timer at all
ArmsTimer_never(ms) == FALSE

\* a mutant of ArmsTimer: a timer armed also for timeout 0
ArmsTimer_always(ms) == ms >= 0

\* `if (timeout > 0)`
ArmsTimer(ms) == ms > 0

\* The process that runs createSnapshotFromPty is alive: visualTest runs it as
\* a render script under execSync, which returns once that process has ended.
ProcessRunning == entry = "visualTest" => vt.pc = "execSync"

\* mkdir of the output directory, spawn, the data listener, the timer, the exit
\* listener: the function up to its first await
Spawn ==
  /\ pc = "start"
  /\ dirs' = dirs \cup {"output"}
  /\ pty' = Some(SpawnDims(opts))
  /\ childAlive' = TRUE
  /\ timer' = IF ArmsTimer(EffectiveTimeout(opts))
              THEN [state |-> "armed", ms |-> EffectiveTimeout(opts)]
              ELSE timer
  /\ promise' = "pending"
  /\ pc' = "awaitExit"
  /\ UNCHANGED <<auxVars, entry, callOpts, opts, error, exitEvent, killCalls, arrived, captured,
                 renVars, files, tempFiles, testVars>>

\* a mutant of Append_captured: the chunk replaces the buffer
Append_captured_overwrite(buf, data) == data

\* `captured += data`
Append_captured(buf, data) == buf \o data

\* pty.onData: a data event arrives while the PTY is open
OnData(data) ==
  /\ ProcessRunning
  /\ IsDefined(pty)
  /\ exitEvent.state /= "handled"
  /\ Len(arrived) < MaxChunks
  /\ captured' = Append_captured(captured, data)
  /\ arrived' = Append(arrived, data)
  /\ UNCHANGED <<ctlVars, pty, childAlive, exitEvent, timer, promise, killCalls,
                 renVars, fsVars, testVars>>

\* the child process ends by itself; node-pty queues its exit event
ChildExit(code) ==
  /\ childAlive
  /\ ProcessRunning
  /\ childAlive' = FALSE
  /\ exitEvent' = [state |-> "queued", code |-> code]
  /\ UNCHANGED <<ctlVars, pty, timer, promise, killCalls, arrived, captured,
                 renVars, fsVars, testVars>>

\* a mutant of TimeoutHandler: the timer rejects without killing the child
TimeoutHandler_nokill ==
  /\ ProcessRunning
  /\ timer.state = "armed"
  /\ timer' = [timer EXCEPT !.state = "fired"]
  /\ Reject(TimeoutError(timer.ms, opts.command))
  /\ UNCHANGED <<auxVars, entry, callOpts, opts, pty, childAlive, exitEvent, killCalls, arrived,
                 captured, renVars, fsVars, testVars>>

\* the setTimeout callback: pty.kill(), then reject with the timeout error.
\* The signal ends a running child, whose exit event follows with a code of the
\* platform's choosing; a child that has already ended is not affected.
TimeoutHandler ==
  /\ ProcessRunning
  /\ timer.state = "armed"
  /\ timer' = [timer EXCEPT !.state = "fired"]
  /\ killCalls' = killCalls + 1
  /\ \/ /\ childAlive
        /\ childAlive' = FALSE
        /\ \E code \in ExitCodes : exitEvent' = [state |-> "queued", code |-> code]
     \/ /\ ~childAlive
        /\ UNCHANGED <<childAlive, exitEvent>>
  /\ Reject(TimeoutError(timer.ms, opts.command))
  /\ UNCHANGED <<auxVars, entry, callOpts, opts, pty, arrived, captured, renVars, fsVars, testVars>>

\* a mutant of ExitIsFailure: only 0 is a normal exit
ExitIsFailure_strict(code) == ~(code.kind = "number" /\ code.n = 0)

\* `exitCode && exitCode !== 0`
ExitIsFailure(code) == TruthyCode(code) /\ code /= Num(0)

\* pty.onExit: clear the timer, then reject or resolve
OnExit ==
  /\ ProcessRunning
  /\ exitEvent.state = "queued"
  /\ exitEvent' = [exitEvent EXCEPT !.state = "handled"]
  /\ timer' = IF timer.state = "armed" THEN [timer EXCEPT !.state = "cleared"] ELSE timer
  /\ IF ExitIsFailure(exitEvent.code)
     THEN Reject(ProcessExitError(exitEvent.code, opts.command))
     ELSE Resolve
  /\ UNCHANGED <<auxVars, entry, callOpts, opts, pty, childAlive, killCalls, arrived, captured,
                 renVars, fsVars, testVars>>

\* the inline cleaning of createSnapshotFromPty
InlineClean(data) == RemoveAll(data, VS16)

InlineCount(data) == MatchCount(data, VS16)

\* a mutant of MayNormalize: the function goes on while the capture is pending
MayNormalize_early == pc \in {"awaitExit", "resumed"}

\* the function goes on past its await once the capture promise has resolved
MayNormalize == pc = "resumed"

\* after the await: cleanedData and vsCount from the captured buffer
Normalize ==
  /\ MayNormalize
  /\ cleanedData' = InlineClean(captured)
  /\ vsCount' = InlineCount(captured)
  /\ pc' = "normalized"
  /\ UNCHANGED <<auxVars, entry, callOpts, opts, error, capVars, currentFontConfig, renderOptions,
                 terminal, buffer, fsVars, testVars>>

\* ------------------------------------------------------- withEmojiFontConfig

\* the fontConfig object createSnapshotFromPty builds
FontConfigOf(o, dims) ==
  [emojiFontPath |-> o.emojiFontPath,
   emojiFontFamily |-> o.emojiFontFamily,
   baseFontPath |-> o.baseFontPath,
   baseFontFamily |-> o.baseFontFamily,
   cols |-> Some(dims.cols),
   rows |-> Some(dims.rows)]

\* `!config || (!config.emojiFontPath && !config.baseFontPath)` is false:
\* withEmojiFontConfig stores the config in the slot around fn()
StoresConfig(config) ==
  TruthyPath(config.emojiFontPath) \/ TruthyPath(config.baseFontPath)

\* the guard of withEmojiFontConfig on its optional config argument
Stores(config) == IsDefined(config) /\ StoresConfig(Get(config))

\* `currentFontConfig = config` before fn(), unless the guard returned fn() at once
SlotOnEnter(config, slot) == IF Stores(config) THEN config ELSE slot

\* a mutant of SlotOnLeave: no finally block, the slot keeps the config
SlotOnLeave_keep(config, slot) == slot

\* `finally { currentFontConfig = undefined }`, unless the guard returned fn() at once
SlotOnLeave(config, slot) == IF Stores(config) THEN Undefined ELSE slot

\* withEmojiFontConfig(fontConfig, () => renderScreenshot({data: cleanedData, ...}))
\* up to the call of renderScreenshot
RenderStart ==
  /\ pc = "normalized"
  /\ currentFontConfig' = SlotOnEnter(Some(FontConfigOf(opts, Get(pty))), currentFontConfig)
  /\ renderOptions' = Some([data |-> cleanedData, fontFamily |-> EffectiveFontFamily(opts)])
  /\ pc' = "rendering"
  /\ UNCHANGED <<auxVars, entry, callOpts, opts, error, capVars, cleanedData, vsCount, terminal,
                 buffer, fsVars, testVars>>

\* ----------------------------------------------------------- generateTemplate

\* a mutant of FontFaces: a block for the emoji font only
FontFaces_emojiOnly(config) ==
  IF TruthyPath(config.emojiFontPath)
  THEN {[family |-> config.emojiFontFamily, path |-> Get(config.emojiFontPath)]}
  ELSE {}

\* `font-family: "${family}"` of a block: an undefined family is interpolated
\* as the word undefined
FaceFamilyName(face) == Default(face.family, <<"undefined">>)

\* the @font-face blocks of the template: one per font path given
FontFaces(config) ==
  (IF TruthyPath(config.emojiFontPath)
   THEN {[family |-> config.emojiFontFamily, path |-> Get(config.emojiFontPath)]}
   ELSE {})
  \cup
  (IF TruthyPath(config.baseFontPath)
   THEN {[family |-> config.baseFontFamily, path |-> Get(config.baseFontPath)]}
   ELSE {})

\* terminal-screenshot's own generateTemplate: it is given renderScreenshot's
\* options only (no cols, no rows) and sizes the terminal from the data
originalGenerateTemplate(options) ==
  [cols |-> DimsFromData(options.data).cols,
   rows |-> DimsFromData(options.data).rows,
   data |-> options.data,
   fontFamilies |-> SelectSeq(TrimEach(Split(options.fontFamily, ",")), NonEmpty),
   fontFaces |-> {},
   patched |-> FALSE]

\* a mutant of TemplateDims: the size always computed from the data
TemplateDims_fromData(config, data) == DimsFromData(data)

\* terminalColumns and terminalRows of the patched template
TemplateDims(config, data) ==
  IF IsDefined(config.cols) /\ IsDefined(config.rows)
  THEN [cols |-> Get(config.cols), rows |-> Get(config.rows)]
  ELSE DimsFromData(data)

patchedGenerateTemplate(slot, options) ==
  IF slot = Undefined THEN originalGenerateTemplate(options)
  ELSE LET config == Get(slot)
       IN [cols |-> TemplateDims(config, options.data).cols,
           rows |-> TemplateDims(config, options.data).rows,
           data |-> options.data,
           fontFamilies |-> normaliseFamilies(options.fontFamily, config.emojiFontFamily,
                                              config.baseFontFamily),
           fontFaces |-> FontFaces(config),
           patched |-> TRUE]

\* renderScreenshot asks the template module for its page
GenerateTemplate ==
  /\ pc = "rendering"
  /\ terminal' = Some(patchedGenerateTemplate(currentFontConfig, Get(renderOptions)))
  /\ pc' = "templated"
  /\ UNCHANGED <<auxVars, entry, callOpts, opts, error, capVars, cleanedData, vsCount,
                 currentFontConfig, renderOptions, buffer, fsVars, testVars>>

RECURSIVE VisibleCount(_)
VisibleCount(data) ==
  IF data = <<>> THEN 0
  ELSE (IF Head(data) = "m" THEN 1 ELSE 0) + VisibleCount(Tail(data))

\* the screenshot of the page: an image of the terminal's size whose tracked
\* pixels are lit by the visible text
Raster(t) ==
  [w |-> t.cols, h |-> t.rows,
   px |-> [i \in 1..NPix |-> IF i <= VisibleCount(StripAnsi(t.data)) THEN 1 ELSE 0]]

\* the finally block of withEmojiFontConfig
SlotAfter(o, slot) == SlotOnLeave(Some(FontConfigOf(o, Get(pty))), slot)

\* renderScreenshot resolves with the image buffer
RenderFinish ==
  /\ pc = "templated"
  /\ buffer' = Some(Raster(Get(terminal)))
  /\ currentFontConfig' = SlotAfter(opts, currentFontConfig)
  /\ pc' = "rendered"
  /\ UNCHANGED <<auxVars, entry, callOpts, opts, error, capVars, cleanedData, vsCount,
                 renderOptions, terminal, fsVars, testVars>>

\* renderScreenshot rejects (the page or a font fails to load)
RenderFail ==
  /\ pc \in {"rendering", "templated"}
  /\ currentFontConfig' = SlotAfter(opts, currentFontConfig)
  /\ pc' = "failed"
  /\ error' = RenderError
  /\ UNCHANGED <<auxVars, entry, callOpts, opts, capVars, cleanedData, vsCount, renderOptions,
                 terminal, buffer, fsVars, testVars>>

\* fs.writeFileSync(outputPath, buffer)
WriteOutput ==
  /\ pc = "rendered"
  /\ files' = [files EXCEPT !.output = buffer]
  /\ pc' = "done"
  /\ UNCHANGED <<auxVars, entry, callOpts, opts, error, capVars, renVars, dirs, tempFiles, testVars>>

\* --------------------------------------------------------------- fixedPtyRender

\* the options fixedPtyRender hands to createSnapshotFromPty: its own defaults
\* for command, cols and rows; the font and style options passed on; the
\* timeout is not among the properties it destructures and passes
fixedPtyRender(o) ==
  [command |-> Default(o.command, "npx"),
   cols |-> Some(Default(o.cols, FixedCols)),
   rows |-> Some(Default(o.rows, FixedRows)),
   timeout |-> Undefined,
   emojiFontPath |-> o.emojiFontPath,
   emojiFontFamily |-> o.emojiFontFamily,
   baseFontPath |-> o.baseFontPath,
   baseFontFamily |-> o.baseFontFamily,
   fontFamily |-> o.fontFamily]

\* createSnapshotFromPty called directly: the caller's options as they are
\* (command is required)
DirectOptions(o) == [o EXCEPT !.command = Get(o.command)]

\* ------------------------------------------------------------------ comparePng

\* comparePng's defaults; a threshold is kept in tenths
DefaultThreshold == 1
DefaultMaxDiffPixels == 0

NoCompare ==
  [pc |-> "idle", maxDiffPixels |-> 0, threshold |-> 0, diffPixels |-> 0,
   matched |-> FALSE, error |-> "none"]

\* comparePng(actualPath, baselinePath, diffPath, {threshold, maxDiffPixels}) is called
CallComparePng(options) ==
  [pc |-> "start",
   maxDiffPixels |-> Default(options.maxDiffPixels, DefaultMaxDiffPixels),
   threshold |-> Default(options.threshold, DefaultThreshold),
   diffPixels |-> 0, matched |-> FALSE, error |-> "none"]

\* PNG.sync.read(fs.readFileSync(...)) of the actual and the baseline image
CmpRead ==
  /\ cmp.pc = "start"
  /\ cmp' = IF IsDefined(files.output) /\ IsDefined(files.baseline)
            THEN [cmp EXCEPT !.pc = "decoded"]
            ELSE [cmp EXCEPT !.pc = "threw", !.error = "read"]
  /\ UNCHANGED <<ctlVars, capVars, renVars, fsVars, vt, ev>>

\* a mutant of DimensionsDiffer: only the widths are compared
DimensionsDiffer_width(actual, baseline) == actual.w /= baseline.w

\* `actual.width !== baseline.width || actual.height !== baseline.height`
DimensionsDiffer(actual, baseline) == actual.w /= baseline.w \/ actual.h /= baseline.h

CmpDimensions ==
  /\ cmp.pc = "decoded"
  /\ cmp' = IF DimensionsDiffer(Get(files.output), Get(files.baseline))
            THEN [cmp EXCEPT !.pc = "threw", !.error = "dimension"]
            ELSE [cmp EXCEPT !.pc = "sized"]
  /\ UNCHANGED <<ctlVars, capVars, renVars, fsVars, vt, ev>>

Distance(a, b) == IF a > b THEN a - b ELSE b - a

\* pixelmatch counts a pixel whose colour distance exceeds the threshold
PixelDiffers(a, b, threshold) == Distance(a, b) * 10 > threshold

\* pixelmatch(actual.data, baseline.data, diff.data, width, height, {threshold})
pixelmatch(actual, baseline, threshold) ==
  Cardinality({i \in 1..NPix : PixelDiffers(actual.px[i], baseline.px[i], threshold)})

\* the diff image pixelmatch fills in: the differing pixels marked
DiffImage(actual, baseline, threshold) ==
  [w |-> actual.w, h |-> actual.h,
   px |-> [i \in 1..NPix |->
             IF PixelDiffers(actual.px[i], baseline.px[i], threshold) THEN 1 ELSE 0]]

CmpPixelmatch ==
  /\ cmp.pc = "sized"
  /\ cmp' = [cmp EXCEPT !.pc = "matched", !.matched = TRUE,
                        !.diffPixels = pixelmatch(Get(files.output), Get(files.baseline),
                                                  cmp.threshold)]
  /\ UNCHANGED <<ctlVars, capVars, renVars, fsVars, vt, ev>>

\* a mutant of CmpWriteDiff: the diff image saved only for a comparison that fails
CmpWriteDiff_onFailure ==
  /\ cmp.pc = "matched"
  /\ dirs' = dirs \cup {"diff"}
  /\ files' = IF cmp.diffPixels > cmp.maxDiffPixels
              THEN [files EXCEPT !.diff = Some(DiffImage(Get(files.output), Get(files.baseline),
                                                         cmp.threshold))]
              ELSE files
  /\ cmp' = [cmp EXCEPT !.pc = "written"]
  /\ UNCHANGED <<ctlVars, capVars, renVars, tempFiles, vt, ev>>

\* fs.mkdirSync(path.dirname(diffPath)); fs.writeFileSync(diffPath, PNG.sync.write(diff))
CmpWriteDiff ==
  /\ cmp.pc = "matched"
  /\ dirs' = dirs \cup {"diff"}
  /\ files' = [files EXCEPT !.diff = Some(DiffImage(Get(files.output), Get(files.baseline),
                                                    cmp.threshold))]
  /\ cmp' = [cmp EXCEPT !.pc = "written"]
  /\ UNCHANGED <<ctlVars, capVars, renVars, tempFiles, vt, ev>>

\* a mutant of ExceedsTolerance: the bound itself already fails
ExceedsTolerance_strict(diffPixels, maxDiffPixels) == diffPixels >= maxDiffPixels

\* `diffPixels > maxDiffPixels`
ExceedsTolerance(diffPixels, maxDiffPixels) == diffPixels > maxDiffPixels

CmpTolerance ==
  /\ cmp.pc = "written"
  /\ cmp' = IF ExceedsTolerance(cmp.diffPixels, cmp.maxDiffPixels)
            THEN [cmp EXCEPT !.pc = "threw", !.error = "tolerance"]
            ELSE [cmp EXCEPT !.pc = "returned"]
  /\ UNCHANGED <<ctlVars, capVars, renVars, fsVars, vt, ev>>

ComparePng == CmpRead \/ CmpDimensions \/ CmpPixelmatch \/ CmpWriteDiff \/ CmpTolerance

\* ------------------------------------------------- fonts of the CI configuration

InkSnapshotEmoji == <<"E", "C">>
InkSnapshotTwemoji == <<"E", "T">>
InkSnapshotUnifont == <<"E", "U">>

EMOJI_FONT_OPTIONS ==
  [system |-> [path |-> Undefined, family |-> Undefined],
   color |-> [path |-> Some("font/NotoColorEmoji.ttf"), family |-> Some(InkSnapshotEmoji)],
   mono |-> [path |-> Some("font/NotoEmoji-Regular.ttf"), family |-> Some(InkSnapshotEmojiMono)],
   twemoji |-> [path |-> Some("font/TwemojiMozilla.ttf"), family |-> Some(InkSnapshotTwemoji)],
   unifont |-> [path |-> Some("font/Unifont.otf"), family |-> Some(InkSnapshotUnifont)]]

\* EMOJI_FONT_OPTIONS[key]
EmojiOption(key) ==
  IF key \in DOMAIN EMOJI_FONT_OPTIONS THEN Some(EMOJI_FONT_OPTIONS[key]) ELSE Undefined

getEmojiFontPath(key) ==
  IF EmojiOption(key) = Undefined THEN Undefined ELSE Get(EmojiOption(key)).path

\* the bundled base font
getBundledBaseFont == [path |-> "font/base.ttf", family |-> InkSnapshotBaseMono]

CITimeout == 60000
CIFontFamily == DejaVuSansMono \o <<",", " ">> \o monospace

\* getCIOptimizedConfig(options): the emoji key defaults to 'noto', the base
\* font to 'bundled'
getCIOptimizedConfig(o) ==
  LET emojiFontKey == Default(o.emojiFontKey, "noto")
      baseFont == Default(o.baseFont, "bundled")
      emojiOption == EmojiOption(emojiFontKey)
  IN [emojiFontPath |-> IF emojiFontKey = "system" THEN Undefined
                        ELSE getEmojiFontPath(emojiFontKey),
      emojiFontFamily |-> IF emojiOption = Undefined THEN Undefined
                          ELSE Get(emojiOption).family,
      baseFontPath |-> IF baseFont = "bundled" THEN Some(getBundledBaseFont.path)
                       ELSE Undefined,
      baseFontFamily |-> IF baseFont = "bundled" THEN Some(getBundledBaseFont.family)
                         ELSE Undefined,
      fontFamily |-> Some(CIFontFamily),
      timeout |-> Some(CITimeout)]

NoArguments == [emojiFontKey |-> Undefined, baseFont |-> Undefined]

\* ------------------------------------------------------------------ visualTest

TERMINAL_PRESETS ==
  "tiny" :> [cols |-> 40, rows |-> 15] @@
  "narrow" :> [cols |-> 60, rows |-> 20] @@
  "standard" :> [cols |-> 80, rows |-> 24] @@
  "wide" :> [cols |-> 120, rows |-> 40] @@
  "ultra-wide" :> [cols |-> 160, rows |-> 50] @@
  "ci" :> [cols |-> 100, rows |-> 30] @@
  "ci-narrow" :> [cols |-> 80, rows |-> 25] @@
  "mobile" :> [cols |-> 50, rows |-> 20] @@
  "test-small" :> [cols |-> 60, rows |-> 15] @@
  "test-large" :> [cols |-> 140, rows |-> 45]

getTerminalPreset(name) ==
  IF name \in DOMAIN TERMINAL_PRESETS THEN Some(TERMINAL_PRESETS[name]) ELSE Undefined

\* the object carries property f: with a value, or written out as `f: undefined`
\* (the names of the latter are kept in the field undef)
Carries(object, f) == IsDefined(object[f]) \/ f \in object.undef

\* {...a, ...b}: every property b carries replaces a's, an undefined one too
Spread(a, b) ==
  [f \in DOMAIN a |->
     IF f = "undef"
     THEN {g \in a.undef : ~Carries(b, g)} \cup b.undef
     ELSE IF Carries(b, f) THEN b[f] ELSE a[f]]

\* a mutant of mergeConfig: the config file's values take precedence
mergeConfig_configFirst(config, options) == Spread(options, config)

mergeConfig(config, options) == Spread(config, options)

NoVisualOptions ==
  [preset |-> Undefined, cols |-> Undefined, rows |-> Undefined,
   maxDiffPixels |-> Undefined, threshold |-> Undefined, updateBaseline |-> Undefined,
   undef |-> {}]

\* visualTest's defaults
VisualCols == 80
VisualRows == 24
VisualMaxDiffPixels == 100

\* presetConfig: the preset's cols and rows when a preset is named
PresetConfig(merged) ==
  IF TruthyPath(merged.preset)
  THEN [NoVisualOptions EXCEPT
          !.cols = Some(Get(getTerminalPreset(Get(merged.preset))).cols),
          !.rows = Some(Get(getTerminalPreset(Get(merged.preset))).rows)]
  ELSE NoVisualOptions

\* finalOptions destructured with its defaults
FinalOptions(config, options) ==
  LET merged == mergeConfig(config, options)
      final == Spread(PresetConfig(merged), merged)
  IN [cols |-> Default(final.cols, VisualCols),
      rows |-> Default(final.rows, VisualRows),
      maxDiffPixels |-> Default(final.maxDiffPixels, VisualMaxDiffPixels),
      threshold |-> Default(final.threshold, DefaultThreshold),
      updateBaseline |-> Default(final.updateBaseline, TRUE)]

UnknownPreset(config, options) ==
  LET merged == mergeConfig(config, options)
  IN TruthyPath(merged.preset) /\ getTerminalPreset(Get(merged.preset)) = Undefined

NoFinal ==
  [cols |-> 0, rows |-> 0, maxDiffPixels |-> 0, threshold |-> 0, updateBaseline |-> FALSE]

NoVisualTest ==
  [pc |-> "idle", mode |-> "file", renderFileExists |-> FALSE,
   options |-> NoVisualOptions, config |-> NoVisualOptions, final |-> NoFinal,
   error |-> "none", available |-> {}]

\* the error of an unknown preset: it lists Object.keys(TERMINAL_PRESETS)
UnknownPresetError(call) ==
  [call EXCEPT !.pc = "threw", !.error = "preset", !.available = DOMAIN TERMINAL_PRESETS]

\* a mutant of VtConfigure: the directories are created before the preset is looked up
VtConfigure_mkdirFirst ==
  /\ vt.pc = "start"
  /\ dirs' = dirs \cup {"output", "baselines", "diff"}
  /\ vt' = IF UnknownPreset(vt.config, vt.options)
           THEN UnknownPresetError(vt)
           ELSE [vt EXCEPT !.pc = "configured",
                           !.final = FinalOptions(vt.config, vt.options)]
  /\ UNCHANGED <<ctlVars, capVars, renVars, files, tempFiles, cmp, ev>>

\* loadConfig, mergeConfig, the preset, the three directories
VtConfigure ==
  /\ vt.pc = "start"
  /\ IF UnknownPreset(vt.config, vt.options)
     THEN /\ vt' = UnknownPresetError(vt)
          /\ UNCHANGED dirs
     ELSE /\ vt' = [vt EXCEPT !.pc = "configured",
                              !.final = FinalOptions(vt.config, vt.options)]
          /\ dirs' = dirs \cup {"output", "baselines", "diff"}
  /\ UNCHANGED <<ctlVars, capVars, renVars, files, tempFiles, cmp, ev>>

\* the options of the render script's fixedPtyRender call
RenderScriptOptions(final) ==
  LET ci == getCIOptimizedConfig(NoArguments)
  IN [command |-> Undefined, cols |-> Some(final.cols), rows |-> Some(final.rows),
      timeout |-> ci.timeout,
      emojiFontPath |-> ci.emojiFontPath, emojiFontFamily |-> ci.emojiFontFamily,
      baseFontPath |-> ci.baseFontPath, baseFontFamily |-> ci.baseFontFamily,
      fontFamily |-> ci.fontFamily]

\* the try block up to execSync: the render file checked (file mode), the
\* temporary files written, the render script started
VtGenerate ==
  /\ vt.pc = "configured"
  /\ IF vt.mode = "file" /\ ~vt.renderFileExists
     THEN /\ vt' = [vt EXCEPT !.pc = "finally", !.error = "renderFile"]
          /\ UNCHANGED <<callOpts, opts, pc, dirs, tempFiles>>
     ELSE /\ vt' = [vt EXCEPT !.pc = "execSync"]
          /\ dirs' = dirs \cup {"temp"}
          /\ tempFiles' = IF vt.mode = "file" THEN {"script"} ELSE {"cli", "script"}
          /\ callOpts' = RenderScriptOptions(vt.final)
          /\ opts' = fixedPtyRender(RenderScriptOptions(vt.final))
          /\ pc' = "start"
  /\ UNCHANGED <<auxVars, entry, error, capVars, renVars, files, cmp, ev>>

\* a mutant of ScriptSucceeded: a failed render script goes unnoticed
ScriptSucceeded_any == pc \in {"done", "failed"}

\* execSync returns when the render script exits with status 0
ScriptSucceeded == pc = "done"

\* execSync ends: it throws when the render script failed
VtScriptEnd ==
  /\ vt.pc = "execSync"
  /\ pc \in {"done", "failed"}
  /\ vt' = IF ScriptSucceeded
           THEN [vt EXCEPT !.pc = "generated"]
           ELSE [vt EXCEPT !.pc = "finally", !.error = "generation"]
  /\ UNCHANGED <<ctlVars, capVars, renVars, fsVars, cmp, ev>>

\* a mutant of CreatesBaseline: a missing baseline is always created
CreatesBaseline_always(updateBaseline) == TRUE

\* `if (updateBaseline)` under a missing baseline
CreatesBaseline(updateBaseline) == updateBaseline

\* a mutant of VtBaseline: with updateBaseline set the output is copied over the
\* baseline whether or not one exists
VtBaseline_refresh ==
  /\ vt.pc = "generated"
  /\ IF files.baseline = Undefined \/ vt.final.updateBaseline
     THEN IF CreatesBaseline(vt.final.updateBaseline)
          THEN /\ files' = [files EXCEPT !.baseline = files.output]
               /\ vt' = [vt EXCEPT !.pc = "finally"]
               /\ UNCHANGED cmp
          ELSE /\ vt' = [vt EXCEPT !.pc = "finally", !.error = "baseline"]
               /\ UNCHANGED <<files, cmp>>
     ELSE /\ cmp' = CallComparePng([maxDiffPixels |-> Some(vt.final.maxDiffPixels),
                                    threshold |-> Some(vt.final.threshold)])
          /\ vt' = [vt EXCEPT !.pc = "comparing"]
          /\ UNCHANGED files
  /\ UNCHANGED <<ctlVars, capVars, renVars, dirs, tempFiles, ev>>

\* the baseline check: create it, fail, or start the comparison
VtBaseline ==
  /\ vt.pc = "generated"
  /\ IF files.baseline = Undefined
     THEN IF CreatesBaseline(vt.final.updateBaseline)
          THEN /\ files' = [files EXCEPT !.baseline = files.output]
               /\ vt' = [vt EXCEPT !.pc = "finally"]
               /\ UNCHANGED cmp
          ELSE /\ vt' = [vt EXCEPT !.pc = "finally", !.error = "baseline"]
               /\ UNCHANGED <<files, cmp>>
     ELSE /\ cmp' = CallComparePng([maxDiffPixels |-> Some(vt.final.maxDiffPixels),
                                    threshold |-> Some(vt.final.threshold)])
          /\ vt' = [vt EXCEPT !.pc = "comparing"]
          /\ UNCHANGED files
  /\ UNCHANGED <<ctlVars, capVars, renVars, dirs, tempFiles, ev>>

\* comparePng settles: its error goes on, its result is checked once more
VtCompared ==
  /\ vt.pc = "comparing"
  /\ cmp.pc \in {"returned", "threw"}
  /\ vt' = IF cmp.pc = "threw" THEN [vt EXCEPT !.pc = "finally", !.error = cmp.error]
           ELSE IF cmp.diffPixels > vt.final.maxDiffPixels
           THEN [vt EXCEPT !.pc = "finally", !.error = "regression"]
           ELSE [vt EXCEPT !.pc = "finally"]
  /\ UNCHANGED <<ctlVars, capVars, renVars, fsVars, cmp, ev>>

\* the finally block: the temporary files and their directory removed
VtFinally ==
  /\ vt.pc = "finally"
  /\ tempFiles' = {}
  /\ dirs' = dirs \ {"temp"}
  /\ vt' = [vt EXCEPT !.pc = IF vt.error = "none" THEN "returned" ELSE "threw"]
  /\ UNCHANGED <<ctlVars, capVars, renVars, files, cmp, ev>>

VisualTest == VtConfigure \/ VtGenerate \/ VtScriptEnd \/ VtBaseline \/ VtCompared \/ VtFinally

\* -------------------------------------------------------- expectVisualSnapshot

NoSnapshotCheck ==
  [pc |-> "idle", update |-> FALSE, maxDiffPixels |-> Undefined, threshold |-> Undefined,
   pass |-> FALSE, message |-> "none"]

\* the directories, the actual image, update mode, the first run
EvStart ==
  /\ ev.pc = "start"
  /\ dirs' = dirs \cup {"baselines", "diff"}
  /\ IF files.output = Undefined
     THEN /\ ev' = [ev EXCEPT !.pc = "returned", !.pass = FALSE, !.message = "actualMissing"]
          /\ UNCHANGED <<files, cmp>>
     ELSE IF ev.update
     THEN /\ files' = [files EXCEPT !.baseline = files.output]
          /\ ev' = [ev EXCEPT !.pc = "returned", !.pass = TRUE, !.message = "updated"]
          /\ UNCHANGED cmp
     ELSE IF files.baseline = Undefined
     THEN /\ files' = [files EXCEPT !.baseline = files.output]
          /\ ev' = [ev EXCEPT !.pc = "returned", !.pass = TRUE, !.message = "created"]
          /\ UNCHANGED cmp
     ELSE /\ cmp' = CallComparePng([maxDiffPixels |-> ev.maxDiffPixels,
                                    threshold |-> ev.threshold])
          /\ ev' = [ev EXCEPT !.pc = "comparing"]
          /\ UNCHANGED files
  /\ UNCHANGED <<ctlVars, capVars, renVars, tempFiles, vt>>

\* the try/catch around comparePng
EvCompared ==
  /\ ev.pc = "comparing"
  /\ cmp.pc \in {"returned", "threw"}
  /\ ev' = IF cmp.pc = "returned"
           THEN [ev EXCEPT !.pc = "returned", !.pass = TRUE, !.message = "match"]
           ELSE [ev EXCEPT !.pc = "returned", !.pass = FALSE, !.message = "mismatch"]
  /\ UNCHANGED <<ctlVars, capVars, renVars, fsVars, cmp, vt>>

ExpectVisualSnapshot == EvStart \/ EvCompared

IdleTests ==
  /\ cmp = NoCompare
  /\ vt = NoVisualTest
  /\ ev = NoSnapshotCheck

\* ---------------------------------------------------------------------- inputs

SizeOptions ==
  {[cols |-> Undefined, rows |-> Undefined],
   [cols |-> Some(2), rows |-> Some(1)],
   [cols |-> Some(3), rows |-> Some(2)]}

TimeoutOptions == {Undefined, Some(0), Some(200)}

FontOptions ==
  [emojiFontPath : {Undefined, Some("emoji.ttf")},
   emojiFontFamily : {Undefined, Some(InkSnapshotEmojiMono)},
   baseFontPath : {Undefined, Some("base.ttf")},
   baseFontFamily : {Undefined, Some(InkSnapshotBaseMono)}]

FontFamilyOptions == {Undefined, Some(InkSnapshotBaseMono \o <<",", " ">> \o monospace)}

CallerOptions(commands) ==
  {[command |-> c, cols |-> size.cols, rows |-> size.rows, timeout |-> t,
    emojiFontPath |-> f.emojiFontPath, emojiFontFamily |-> f.emojiFontFamily,
    baseFontPath |-> f.baseFontPath, baseFontFamily |-> f.baseFontFamily,
    fontFamily |-> ff] :
     c \in commands, size \in SizeOptions, t \in TimeoutOptions, f \in FontOptions,
     ff \in FontFamilyOptions}

\* the state before the pipeline has run
NoCall == [fn |-> "none", done |-> FALSE]
NoCalls == <<>>
NoPage == [pc |-> "none"]
NoBatch == [pc |-> "none"]

IdlePipeline ==
  /\ pure = NoCall
  /\ calls = NoCalls
  /\ page = NoPage
  /\ batch = NoBatch
  /\ error = NoError
  /\ pty = Undefined
  /\ childAlive = FALSE
  /\ exitEvent = [state |-> "none", code |-> JsUndefined]
  /\ timer = [state |-> "none", ms |-> 0]
  /\ promise = "none"
  /\ killCalls = 0
  /\ arrived = <<>>
  /\ captured = <<>>
  /\ cleanedData = <<>>
  /\ vsCount = 0
  /\ currentFontConfig = Undefined
  /\ renderOptions = Undefined
  /\ terminal = Undefined
  /\ buffer = Undefined

InitDirect ==
  /\ entry = "createSnapshotFromPty"
  /\ callOpts \in CallerOptions({Some("node")})
  /\ opts = DirectOptions(callOpts)
  /\ pc = "start"
  /\ IdlePipeline
  /\ files = [output |-> Undefined, baseline |-> Undefined, diff |-> Undefined]
  /\ dirs = {}
  /\ tempFiles = {}
  /\ IdleTests

InitFixed ==
  /\ entry = "fixedPtyRender"
  /\ callOpts \in CallerOptions({Undefined})
  /\ callOpts.emojiFontPath = Undefined <=> callOpts.emojiFontFamily = Undefined
  /\ callOpts.baseFontPath = Undefined <=> callOpts.baseFontFamily = Undefined
  /\ callOpts.fontFamily = Undefined
  /\ opts = fixedPtyRender(callOpts)
  /\ pc = "start"
  /\ IdlePipeline
  /\ files = [output |-> Undefined, baseline |-> Undefined, diff |-> Undefined]
  /\ dirs = {}
  /\ tempFiles = {}
  /\ IdleTests

NoOptions ==
  [command |-> Undefined, cols |-> Undefined, rows |-> Undefined, timeout |-> Undefined,
   emojiFontPath |-> Undefined, emojiFontFamily |-> Undefined, baseFontPath |-> Undefined,
   baseFontFamily |-> Undefined, fontFamily |-> Undefined]

ImageSizes == {[w |-> 3, h |-> 2], [w |-> 3, h |-> 1], [w |-> 40, h |-> 15]}

Images == {[w |-> size.w, h |-> size.h, px |-> px] : size \in ImageSizes, px \in [1..NPix -> 0..1]}

ImageFiles == {Undefined} \cup {Some(image) : image \in Images}

VisualOptions ==
  {[preset |-> preset, cols |-> size.cols, rows |-> size.rows, maxDiffPixels |-> n,
    threshold |-> Undefined, updateBaseline |-> update, undef |-> size.undef] :
     preset \in {Undefined, Some("tiny"), Some("bogus")},
     size \in {[cols |-> Undefined, rows |-> Undefined, undef |-> {}],
               [cols |-> Undefined, rows |-> Undefined, undef |-> {"cols", "rows"}],
               [cols |-> Some(3), rows |-> Some(2), undef |-> {}]},
     n \in {Undefined, Some(0)},
     update \in {Undefined, Some(FALSE)}}

\* the baselines visualTest meets: none, one of the explicit size, one of the
\* preset's size
VisualBaselines ==
  {Undefined,
   Some([w |-> 3, h |-> 2, px |-> [i \in 1..NPix |-> IF i = 1 THEN 1 ELSE 0]]),
   Some([w |-> 40, h |-> 15, px |-> [i \in 1..NPix |-> 1]])}

ConfigFiles ==
  {NoVisualOptions,
   [NoVisualOptions EXCEPT !.cols = Some(2), !.rows = Some(1)],
   [NoVisualOptions EXCEPT !.preset = Some("ci")]}

CompareOptions ==
  [maxDiffPixels : {Undefined, Some(0), Some(1), Some(2)}, threshold : {Undefined, Some(10)}]

InitVisual ==
  /\ entry = "visualTest"
  /\ callOpts = NoOptions
  /\ opts = fixedPtyRender(NoOptions)
  /\ pc = "idle"
  /\ IdlePipeline
  /\ \E baseline \in VisualBaselines :
       files = [output |-> Undefined, baseline |-> baseline, diff |-> Undefined]
  /\ dirs = {}
  /\ tempFiles = {}
  /\ cmp = NoCompare
  /\ ev = NoSnapshotCheck
  /\ \E mode \in {"file", "component"}, exists \in BOOLEAN, options \in VisualOptions,
        config \in ConfigFiles :
       /\ mode = "component" => exists
       /\ vt = [NoVisualTest EXCEPT !.pc = "start", !.mode = mode,
                                    !.renderFileExists = exists, !.options = options,
                                    !.config = config]

InitCompare ==
  /\ entry = "comparePng"
  /\ callOpts = NoOptions
  /\ opts = fixedPtyRender(NoOptions)
  /\ pc = "idle"
  /\ IdlePipeline
  /\ \E actual \in ImageFiles, baseline \in ImageFiles :
       files = [output |-> actual, baseline |-> baseline, diff |-> Undefined]
  /\ dirs = {}
  /\ tempFiles = {}
  /\ \E options \in CompareOptions : cmp = CallComparePng(options)
  /\ vt = NoVisualTest
  /\ ev = NoSnapshotCheck

InitExpect ==
  /\ entry = "expectVisualSnapshot"
  /\ callOpts = NoOptions
  /\ opts = fixedPtyRender(NoOptions)
  /\ pc = "idle"
  /\ IdlePipeline
  /\ \E actual \in ImageFiles, baseline \in ImageFiles :
       files = [output |-> actual, baseline |-> baseline, diff |-> Undefined]
  /\ dirs = {}
  /\ tempFiles = {}
  /\ cmp = NoCompare
  /\ vt = NoVisualTest
  /\ \E update \in BOOLEAN, options \in CompareOptions :
       ev = [NoSnapshotCheck EXCEPT !.pc = "start", !.update = update,
                                    !.maxDiffPixels = options.maxDiffPixels,
                                    !.threshold = options.threshold]

Init == InitDirect \/ InitFixed \/ InitVisual \/ InitCompare \/ InitExpect

Pipeline ==
  \/ Spawn
  \/ \E data \in Chunks : OnData(data)
  \/ \E code \in ExitCodes : ChildExit(code)
  \/ TimeoutHandler
  \/ OnExit
  \/ Normalize
  \/ RenderStart
  \/ GenerateTemplate
  \/ RenderFinish
  \/ RenderFail
  \/ WriteOutput

Next == Pipeline \/ ComparePng \/ VisualTest \/ ExpectVisualSnapshot

Spec == Init /\ [][Next]_vars

\* createSnapshotFromPty alone, with the event loop doing its work: a timer
\* that is armed fires unless it is cleared, and an exit event that node-pty
\* has queued is delivered to the exit listener.  Nothing makes the child
\* write or exit.
SpecCapture ==
  /\ InitDirect
  /\ [][Pipeline]_vars
  /\ WF_vars(TimeoutHandler)
  /\ WF_vars(OnExit)

(***************************************************************************)
(* The pure functions, called on their own: normaliseFamilies and          *)
(* cleanAnsiData (with the inline copy of it in createSnapshotFromPty).    *)
(***************************************************************************)

RECURSIVE Strings(_, _)
\* every string of at most n code units over an alphabet
Strings(alphabet, n) ==
  IF n = 0 THEN {<<>>}
  ELSE LET shorter == Strings(alphabet, n - 1)
       IN  shorter \cup {Append(s, u) : s \in {t \in shorter : Len(t) = n - 1}, u \in alphabet}

\* caller font-family strings: names, blanks and commas
FamilyStrings == Strings({"a", "b", " ", ","}, MaxFamilyLen)

\* the emojiFontFamily / baseFontFamily arguments: absent, empty, or a name
FamilyArguments == {Undefined, Some(<<>>), Some(<<"a">>), Some(<<"b">>), Some(<<"a", " ">>)}

\* captured streams: text, line feeds, escape sequences, joiners, selectors
DataStrings == Strings({"m", "LF", "ESC", "ZWJ", VS16}, MaxDataLen)

\* the variables of the pipeline and of the tests
progVars == <<entry, callOpts, opts, pc, error, capVars, renVars, fsVars, testVars>>

\* nothing of the rendering pipeline or of the tests is running
IdleProgram ==
  /\ entry = "pure"
  /\ callOpts = NoOptions
  /\ opts = fixedPtyRender(NoOptions)
  /\ pc = "idle"
  /\ error = NoError
  /\ pty = Undefined
  /\ childAlive = FALSE
  /\ exitEvent = [state |-> "none", code |-> JsUndefined]
  /\ timer = [state |-> "none", ms |-> 0]
  /\ promise = "none"
  /\ killCalls = 0
  /\ arrived = <<>>
  /\ captured = <<>>
  /\ cleanedData = <<>>
  /\ vsCount = 0
  /\ currentFontConfig = Undefined
  /\ renderOptions = Undefined
  /\ terminal = Undefined
  /\ buffer = Undefined
  /\ files = [output |-> Undefined, baseline |-> Undefined, diff |-> Undefined]
  /\ dirs = {}
  /\ tempFiles = {}
  /\ cmp = NoCompare
  /\ vt = NoVisualTest
  /\ ev = NoSnapshotCheck

InitNormaliseFamilies ==
  /\ IdleProgram
  /\ calls = NoCalls /\ page = NoPage /\ batch = NoBatch
  /\ \E baseFamily \in FamilyStrings, emojiFamily \in FamilyArguments,
        bundledBaseFamily \in FamilyArguments :
       pure = [fn |-> "normaliseFamilies", done |-> FALSE, baseFamily |-> baseFamily,
               emojiFamily |-> emojiFamily, bundledBaseFamily |-> bundledBaseFamily,
               result |-> <<>>]

CallNormaliseFamilies ==
  /\ pure.fn = "normaliseFamilies"
  /\ ~pure.done
  /\ pure' = [pure EXCEPT !.done = TRUE,
                          !.result = normaliseFamilies(pure.baseFamily, pure.emojiFamily,
                                                       pure.bundledBaseFamily)]
  /\ UNCHANGED <<calls, page, batch, progVars>>

InitCleanAnsiData ==
  /\ IdleProgram
  /\ calls = NoCalls /\ page = NoPage /\ batch = NoBatch
  /\ \E data \in DataStrings :
       pure = [fn |-> "cleanAnsiData", done |-> FALSE, data |-> data, result |-> <<>>,
               cleanedData |-> <<>>, vsCount |-> 0, again |-> FALSE, second |-> <<>>]

\* cleanAnsiData(data), and lines 220-221 of createSnapshotFromPty on the same data
CallCleanAnsiData ==
  /\ pure.fn = "cleanAnsiData"
  /\ ~pure.done
  /\ pure' = [pure EXCEPT !.done = TRUE,
                          !.result = cleanAnsiData(pure.data),
                          !.cleanedData = InlineClean(pure.data),
                          !.vsCount = InlineCount(pure.data)]
  /\ UNCHANGED <<calls, page, batch, progVars>>

\* cleanAnsiData applied to its own result
CallCleanAnsiDataAgain ==
  /\ pure.fn = "cleanAnsiData"
  /\ pure.done
  /\ ~pure.again
  /\ pure' = [pure EXCEPT !.again = TRUE, !.second = cleanAnsiData(pure.result)]
  /\ UNCHANGED <<calls, page, batch, progVars>>

\* the arguments of getCIOptimizedConfig: none, an emoji key, a base font mode
CIArguments ==
  [emojiFontKey : {Undefined, Some("noto"), Some("mono"), Some("color"), Some("system"),
                   Some("bogus")},
   baseFont : {Undefined, Some("bundled"), Some("system")}]

InitGetCIOptimizedConfig ==
  /\ IdleProgram
  /\ calls = NoCalls /\ page = NoPage /\ batch = NoBatch
  /\ \E arguments \in CIArguments :
       pure = [fn |-> "getCIOptimizedConfig", done |-> FALSE, arguments |-> arguments,
               result |-> [emojiFontPath |-> Undefined, emojiFontFamily |-> Undefined,
                           baseFontPath |-> Undefined, baseFontFamily |-> Undefined,
                           fontFamily |-> Undefined, timeout |-> Undefined]]

CallGetCIOptimizedConfig ==
  /\ pure.fn = "getCIOptimizedConfig"
  /\ ~pure.done
  /\ pure' = [pure EXCEPT !.done = TRUE, !.result = getCIOptimizedConfig(pure.arguments)]
  /\ UNCHANGED <<calls, page, batch, progVars>>

InitPure == InitNormaliseFamilies \/ InitCleanAnsiData \/ InitGetCIOptimizedConfig

NextPure ==
  \/ CallNormaliseFamilies
  \/ CallCleanAnsiData
  \/ CallCleanAnsiDataAgain
  \/ CallGetCIOptimizedConfig

SpecPure == InitPure /\ [][NextPure]_vars

(***************************************************************************)
(* withEmojiFontConfig called several times in one process: the calls      *)
(* share the slot currentFontConfig.  A call enters (the guard, the slot   *)
(* set, fn started), its fn may ask for the template (which reads the      *)
(* slot), and it leaves when fn has settled (the finally block, the        *)
(* result or rejection handed on).  Calls that are awaited one after the   *)
(* other never overlap; calls started together do.                         *)
(***************************************************************************)

\* the font configs of the calls: none, one without font paths, one with an
\* emoji font, one with a base font
PathlessConfig ==
  [emojiFontPath |-> Undefined, emojiFontFamily |-> Undefined, baseFontPath |-> Undefined,
   baseFontFamily |-> Undefined, cols |-> Some(80), rows |-> Some(24)]
EmojiConfig ==
  [PathlessConfig EXCEPT !.emojiFontPath = Some("emoji.ttf"),
                         !.emojiFontFamily = Some(InkSnapshotEmojiMono)]
BaseConfig ==
  [PathlessConfig EXCEPT !.baseFontPath = Some("base.ttf"),
                         !.baseFontFamily = Some(InkSnapshotBaseMono),
                         !.cols = Some(100)]
SlotConfigs == {Undefined, Some(PathlessConfig), Some(EmojiConfig), Some(BaseConfig)}

NewCall(config) ==
  [phase |-> "idle", config |-> config, templated |-> FALSE, used |-> Undefined,
   settled |-> "none", result |-> "none", overlapped |-> FALSE]

\* the calls whose fn has started and not settled
Active == {c \in DOMAIN calls : calls[c].phase = "running"}

InitSlot ==
  /\ IdleProgram
  /\ pure = NoCall /\ page = NoPage /\ batch = NoBatch
  /\ \E n \in 1..MaxCalls : calls \in [1..n -> {NewCall(config) : config \in SlotConfigs}]

\* withEmojiFontConfig(config, fn) up to the start of fn
Enter(c) ==
  /\ calls[c].phase = "idle"
  /\ currentFontConfig' = SlotOnEnter(calls[c].config, currentFontConfig)
  /\ calls' = [d \in DOMAIN calls |->
                 IF d = c THEN [calls[c] EXCEPT !.phase = "running", !.overlapped = Active /= {}]
                 ELSE IF d \in Active THEN [calls[d] EXCEPT !.overlapped = TRUE]
                 ELSE calls[d]]
  /\ UNCHANGED <<pure, page, batch, entry, callOpts, opts, pc, error, capVars, cleanedData,
                 vsCount, renderOptions, terminal, buffer, fsVars, testVars>>

\* fn's renderScreenshot asks for the template: patchedGenerateTemplate reads the slot
Template(c) ==
  /\ calls[c].phase = "running"
  /\ ~calls[c].templated
  /\ calls' = [calls EXCEPT ![c].templated = TRUE, ![c].used = currentFontConfig]
  /\ UNCHANGED <<pure, page, batch, progVars>>

\* a mutant of Propagate: a rejection of fn is swallowed
Propagate_swallow(outcome) == "value"

\* `return await fn()`: the value is returned, a rejection is thrown on
Propagate(outcome) == outcome

\* fn settles: the finally block, then the result or the rejection goes to the caller
Leave(c, outcome) ==
  /\ calls[c].phase = "running"
  /\ currentFontConfig' = SlotOnLeave(calls[c].config, currentFontConfig)
  /\ calls' = [calls EXCEPT ![c].phase = "returned", ![c].settled = outcome,
                            ![c].result = Propagate(outcome)]
  /\ UNCHANGED <<pure, page, batch, entry, callOpts, opts, pc, error, capVars, cleanedData,
                 vsCount, renderOptions, terminal, buffer, fsVars, testVars>>

NextSlot ==
  \E c \in DOMAIN calls :
    \/ Enter(c)
    \/ Template(c)
    \/ \E outcome \in {"value", "error"} : Leave(c, outcome)

SpecSlot == InitSlot /\ [][NextSlot]_vars

(***************************************************************************)
(* The page the browser loads for one render.  The patched template's      *)
(* script starts every font load, waits for all of them (or the first      *)
(* rejection), then runs startTerminal: the terminal is created, the       *)
(* Unicode 11 addon is loaded if it can be, and the data is written.  A    *)
(* render whose config was not stored gets terminal-screenshot's own page, *)
(* to which this repository adds nothing: its terminal is written at once. *)
(***************************************************************************)

\* toLowerCase on the code units of the model's family names
LowerUnit(u) ==
  CASE u = "D" -> "d" [] u = "M" -> "m" [] u = "N" -> "n" [] u = "C" -> "c"
    [] u = "E" -> "e" [] u = "B" -> "b" [] OTHER -> u

toLowerCase(family) == [i \in 1..Len(family) |-> LowerUnit(family[i])]

\* the generic families, which need no load; of the nine the model's
\* alphabet spells 'monospace'
GENERIC_FONT_FAMILIES == {monospace}

\* family.replace(/^"|"$/g, ''): a quote at the start and one at the end dropped
StripQuotes(family) ==
  LET noLead == IF family /= <<>> /\ Head(family) = "\"" THEN Tail(family) ELSE family
  IN IF noLead /= <<>> /\ noLead[Len(noLead)] = "\""
     THEN SubSeq(noLead, 1, Len(noLead) - 1) ELSE noLead

NotGeneric(family) == toLowerCase(family) \notin GENERIC_FONT_FAMILIES

\* buildFontLoadPromise(families): the families document.fonts.load is called
\* for; none stands for Promise.resolve(), otherwise Promise.all over them
buildFontLoadPromise(families) ==
  SelectSeq([i \in 1..Len(families) |-> StripQuotes(families[i])], NotGeneric)

\* Promise.all over the loads: rejected with the first rejection, resolved
\* when every load has resolved, pending until then
PromiseAll(loads) ==
  IF \E i \in DOMAIN loads : loads[i] = "rejected" THEN "rejected"
  ELSE IF \A i \in DOMAIN loads : loads[i] = "resolved" THEN "resolved"
  ELSE "pending"

\* what resolveUnicode11Ctor and the try block meet in the browser
AddonStates == {"available", "unavailable", "throws"}

PageConfigs ==
  {Undefined, Some(EmojiConfig), Some(BaseConfig),
   Some([PathlessConfig EXCEPT !.baseFontPath = Some("base.ttf")])}

PageFontFamilies == {monospace, CIFontFamily, InkSnapshotBaseMono \o <<",">> \o InkSnapshotEmojiMono}

PageData == {<<>>, <<"m">>, <<"m", "LF", "m">>}

\* the page as the browser has loaded it: the script has evaluated
\* `Promise.resolve(<loadFonts>)`, so every load has been started
OpenPage(template, addon) ==
  LET loaders == IF template.patched THEN buildFontLoadPromise(template.fontFamilies) ELSE <<>>
      loads == [i \in 1..Len(loaders) |-> "pending"]
  IN [pc |-> "loaded",
      patched |-> template.patched,
      families |-> template.fontFamilies,
      data |-> template.data,
      addon |-> addon,
      loaders |-> loaders,
      loads |-> loads,
      barrier |-> IF template.patched THEN PromiseAll(loads) ELSE "none",
      activeVersion |-> "6",
      errors |-> 0,
      written |-> Undefined,
      log |-> IF template.patched /\ PromiseAll(loads) /= "pending"
              THEN <<PromiseAll(loads)>> ELSE <<>>]

InitPage ==
  /\ IdleProgram
  /\ pure = NoCall /\ calls = NoCalls /\ batch = NoBatch
  /\ \E slot \in PageConfigs, fontFamily \in PageFontFamilies, data \in PageData,
        addon \in AddonStates :
       page = OpenPage(patchedGenerateTemplate(slot, [data |-> data, fontFamily |-> fontFamily]),
                       addon)

\* one document.fonts.load promise settles; Promise.all follows
FontLoadSettles(i, outcome) ==
  /\ page.pc \in {"loaded", "written"}
  /\ page.loads[i] = "pending"
  /\ LET loads == [page.loads EXCEPT ![i] = outcome]
         barrier == IF page.barrier = "pending" THEN PromiseAll(loads) ELSE page.barrier
     IN page' = [page EXCEPT !.loads = loads, !.barrier = barrier,
                             !.log = IF barrier /= page.barrier
                                     THEN Append(page.log, barrier) ELSE page.log]
  /\ UNCHANGED <<pure, calls, batch, progVars>>

\* `.catch(() => undefined).then(startTerminal)`: both outcomes run it
BarrierSettled(p) == p.barrier \in {"resolved", "rejected"}

\* the addon part of startTerminal: loaded and activated, or console.error
LoadUnicode11(p) ==
  IF p.addon = "available"
  THEN [p EXCEPT !.activeVersion = "11", !.log = Append(p.log, "unicode11")]
  ELSE [p EXCEPT !.errors = p.errors + 1, !.log = Append(p.log, "console.error")]

\* terminal.write(data), the last statement of startTerminal
WriteData(p) ==
  [p EXCEPT !.pc = "written", !.written = Some(p.data), !.log = Append(p.log, "write")]

\* startTerminal of the patched template
StartTerminal ==
  /\ page.pc = "loaded"
  /\ page.patched
  /\ BarrierSettled(page)
  /\ page' = WriteData(LoadUnicode11(page))
  /\ UNCHANGED <<pure, calls, batch, progVars>>

\* the script of terminal-screenshot's own template
OriginalStart ==
  /\ page.pc = "loaded"
  /\ ~page.patched
  /\ page' = WriteData(page)
  /\ UNCHANGED <<pure, calls, batch, progVars>>

NextPage ==
  \/ \E i \in DOMAIN page.loads, outcome \in {"resolved", "rejected"} :
       FontLoadSettles(i, outcome)
  \/ StartTerminal
  \/ OriginalStart

SpecPage == InitPage /\ [][NextPage]_vars

(***************************************************************************)
(* batchVisualTestParallel(testCases, concurrency): the for loop takes     *)
(* testCases.slice(i, i + concurrency), starts one visualTest per test     *)
(* case of the slice, awaits them all, pushes their results and adds       *)
(* concurrency to i.  Test cases are numbered from 1 in the model.         *)
(***************************************************************************)

DefaultConcurrency == 3

\* the concurrency argument: left out, or an integer the caller passes
ConcurrencyArguments == {Undefined} \cup {Some(c) : c \in (0 - 1)..MaxConcurrency}

\* a relative index of Array.prototype.slice brought into 0..len
SliceIndex(k, len) == IF k < 0 THEN (IF len + k < 0 THEN 0 ELSE len + k)
                      ELSE (IF k > len THEN len ELSE k)

\* testCases.slice(start, end), as the numbers of the test cases it holds
Slice(start, end, len) ==
  LET from == SliceIndex(start, len)
      to == SliceIndex(end, len)
  IN [k \in 1..(IF to > from THEN to - from ELSE 0) |-> from + k]

NewBatch(n, concurrency) ==
  [pc |-> "loop",
   n |-> n,
   concurrency |-> Default(concurrency, DefaultConcurrency),
   i |-> 0,
   chunk |-> <<>>,
   status |-> [t \in 1..n |-> "pending"],
   startedAt |-> [t \in 1..n |-> Undefined],
   results |-> <<>>]

InitBatch ==
  /\ IdleProgram
  /\ pure = NoCall /\ calls = NoCalls /\ page = NoPage
  /\ \E n \in 0..MaxTests, concurrency \in ConcurrencyArguments :
       batch = NewBatch(n, concurrency)

\* the loop test holds: the chunk is sliced and chunk.map starts every test of it
StartChunk ==
  /\ batch.pc = "loop"
  /\ batch.i < batch.n
  /\ LET chunk == Slice(batch.i, batch.i + batch.concurrency, batch.n)
         members == {chunk[k] : k \in DOMAIN chunk}
     IN batch' = [batch EXCEPT
          !.pc = "awaiting",
          !.chunk = chunk,
          !.status = [t \in 1..batch.n |-> IF t \in members THEN "running" ELSE batch.status[t]],
          !.startedAt = [t \in 1..batch.n |->
                           IF t \in members THEN Some(batch.i) ELSE batch.startedAt[t]]]
  /\ UNCHANGED <<pure, calls, page, progVars>>

\* one visualTest of the chunk resolves, or throws into the catch block
TestSettles(t, outcome) ==
  /\ batch.pc = "awaiting"
  /\ batch.status[t] = "running"
  /\ batch' = [batch EXCEPT !.status[t] = outcome]
  /\ UNCHANGED <<pure, calls, page, progVars>>

\* a mutant of ChunkSettled: Promise.race in place of Promise.all
ChunkSettled_race(b) ==
  b.chunk = <<>> \/ \E k \in DOMAIN b.chunk : b.status[b.chunk[k]] /= "running"

\* `await Promise.all(chunkPromises)` is over
ChunkSettled(b) == \A k \in DOMAIN b.chunk : b.status[b.chunk[k]] /= "running"

\* results.push(...chunkResults); i += concurrency.  With a negative
\* concurrency i falls for ever and every later chunk is empty (the end of the
\* slice is not after its start): the falling counter is held at -MaxTests.
ChunkDone ==
  /\ batch.pc = "awaiting"
  /\ ChunkSettled(batch)
  /\ batch' = [batch EXCEPT
       !.pc = "loop",
       !.results = batch.results \o
                   [k \in DOMAIN batch.chunk |->
                      [test |-> batch.chunk[k], passed |-> batch.status[batch.chunk[k]] = "passed"]],
       !.i = IF batch.i + batch.concurrency < 0 - MaxTests
             THEN batch.i
             ELSE batch.i + batch.concurrency]
  /\ UNCHANGED <<pure, calls, page, progVars>>

\* the loop test fails: the summary is logged and results returned
BatchReturns ==
  /\ batch.pc = "loop"
  /\ ~(batch.i < batch.n)
  /\ batch' = [batch EXCEPT !.pc = "done"]
  /\ UNCHANGED <<pure, calls, page, progVars>>

NextBatch ==
  \/ StartChunk
  \/ \E t \in 1..batch.n, outcome \in {"passed", "failed"} : TestSettles(t, outcome)
  \/ ChunkDone
  \/ BatchReturns

SpecBatch == InitBatch /\ [][NextBatch]_vars

\* the same run with time passing: the function goes on whenever it can, and
\* every visualTest that was started settles
SpecBatchFair == SpecBatch /\ WF_vars(NextBatch)

(***************************************************************************)
(* batchVisualTest(testCases): a for-of loop that awaits one visualTest    *)
(* per test case inside try/catch and pushes one result either way.        *)
(***************************************************************************)

\* how a visualTest call ends: it returns, or it throws an Error with a message
VisualTestOutcomes ==
  {[threw |-> FALSE, message |-> ""],
   [threw |-> TRUE, message |-> "Baseline not found"],
   [threw |-> TRUE, message |-> "Visual regression detected"]}

NoOutcome == [threw |-> FALSE, message |-> "pending"]

\* a mutant of BatchTestResult: every test case reported as passed
BatchTestResult_passed(t, outcome) == [test |-> t, passed |-> TRUE, error |-> Undefined]

\* the object pushed to results: by the try block, or by the catch block
BatchTestResult(t, outcome) ==
  IF outcome.threw
  THEN [test |-> t, passed |-> FALSE, error |-> Some(outcome.message)]
  ELSE [test |-> t, passed |-> TRUE, error |-> Undefined]

InitBatchSeq ==
  /\ IdleProgram
  /\ pure = NoCall /\ calls = NoCalls /\ page = NoPage
  /\ \E n \in 0..MaxTests :
       batch = [pc |-> "loop", n |-> n, next |-> 1,
                status |-> [t \in 1..n |-> "pending"],
                outcome |-> [t \in 1..n |-> NoOutcome],
                results |-> <<>>]

\* the loop takes the next test case and calls visualTest
SeqStart ==
  /\ batch.pc = "loop"
  /\ batch.next <= batch.n
  /\ batch' = [batch EXCEPT !.pc = "awaiting", !.status[batch.next] = "running"]
  /\ UNCHANGED <<pure, calls, page, progVars>>

\* the awaited visualTest returns or throws; the result is pushed
SeqSettles(outcome) ==
  /\ batch.pc = "awaiting"
  /\ batch' = [batch EXCEPT
       !.pc = "loop",
       !.status[batch.next] = "settled",
       !.outcome[batch.next] = outcome,
       !.results = Append(batch.results, BatchTestResult(batch.next, outcome)),
       !.next = batch.next + 1]
  /\ UNCHANGED <<pure, calls, page, progVars>>

\* the loop is over: the summary is logged and results returned
SeqReturns ==
  /\ batch.pc = "loop"
  /\ batch.next > batch.n
  /\ batch' = [batch EXCEPT !.pc = "done"]
  /\ UNCHANGED <<pure, calls, page, progVars>>

NextBatchSeq ==
  \/ SeqStart
  \/ \E outcome \in VisualTestOutcomes : SeqSettles(outcome)
  \/ SeqReturns

SpecBatchSeq == InitBatchSeq /\ [][NextBatchSeq]_vars

(***************************************************************************)
(* Properties of the capture: dimensions, timeout, exit code, data order.  *)
(***************************************************************************)

\* the function has gone past its await of the capture promise
PostCapture == {"resumed", "normalized", "rendering", "templated", "rendered", "done"}

\* C1: whenever a terminal emulator is created for rendering, its columns and
\* rows equal the columns and rows the PTY was spawned with; they are never
\* recomputed from the captured output.
C1_TerminalDimsEqualPtyDims ==
  IsDefined(terminal) =>
    /\ Get(terminal).cols = Get(pty).cols
    /\ Get(terminal).rows = Get(pty).rows

C5_ExitErrorIffNonZeroNumber ==
  LET code == exitEvent.code
      nonZeroNumber == code.kind = "number" /\ code.n /= 0
  IN  /\ (exitEvent.state = "handled" /\ timer.state /= "fired") =>
           /\ nonZeroNumber <=> (error.kind = "exit" /\ promise = "rejected")
           /\ nonZeroNumber => (pc = "failed" /\ error.code = code /\ ~IsDefined(renderOptions))
           /\ ~nonZeroNumber => (promise = "resolved" /\ error.kind \in {"none", "render"})
      /\ error.kind = "exit" => (exitEvent.state = "handled" /\ nonZeroNumber)

\* the child exited with code null and the snapshot was rendered and written
C5_Witness ==
  /\ exitEvent = [state |-> "handled", code |-> JsNull]
  /\ timer.state /= "fired"
  /\ pc = "done"

RECURSIVE Concat(_)
\* the chunks of a sequence of data events, one after the other
Concat(chunks) == IF chunks = <<>> THEN <<>> ELSE Head(chunks) \o Concat(Tail(chunks))

\* the code units of a string that are not variation selectors
WithoutSelectors(s) == SelectSeq(s, LAMBDA u : u /= VS16)

DifferingPixels(actual, baseline, threshold) ==
  {i \in 1..NPix : Distance(actual.px[i], baseline.px[i]) * 10 > threshold}

\* C7: with a tolerance of N differing pixels, a comparison of two images of
\* equal size succeeds when exactly N (or fewer) pixels differ and fails with
\* a tolerance error when N+1 or more differ.
C7_ToleranceBoundary ==
  LET n == cmp.maxDiffPixels
      differing == Cardinality(DifferingPixels(Get(files.output), Get(files.baseline),
                                               cmp.threshold))
  IN  /\ (cmp.pc \in {"returned", "threw"} /\ cmp.matched) =>
           /\ cmp.diffPixels = differing
           /\ cmp.pc = "returned" <=> differing <= n
           /\ (cmp.pc = "threw" /\ cmp.error = "tolerance") <=> differing >= n + 1
      /\ cmp.pc = "returned" => cmp.matched
      /\ cmp.error = "tolerance" => cmp.matched

\* with a tolerance of one pixel, exactly one pixel differs and the comparison succeeds
C7_Witness ==
  /\ cmp.pc = "returned"
  /\ cmp.maxDiffPixels = 1
  /\ cmp.diffPixels = 1

\* C8: when the two images differ in width or height, the comparison fails
\* with a dimension-mismatch error before any pixel is compared and before any
\* diff file is written, and the images are left as they are (no resizing or
\* cropping makes them comparable).
C8_DimensionMismatchFirst ==
  /\ cmp.error = "dimension" =>
       /\ cmp.pc = "threw"
       /\ ~cmp.matched
       /\ cmp.diffPixels = 0
       /\ files.diff = Undefined
       /\ "diff" \in dirs => entry /= "comparePng"
       /\ Get(files.output).w /= Get(files.baseline).w
            \/ Get(files.output).h /= Get(files.baseline).h
  /\ (cmp.pc \notin {"idle", "start", "decoded"} /\ cmp.error /= "read") =>
       LET actual == Get(files.output)
           baseline == Get(files.baseline)
       IN  (actual.w /= baseline.w \/ actual.h /= baseline.h) => cmp.error = "dimension"

\* two images of the same width and different heights were compared
C8_Witness ==
  /\ cmp.error = "dimension"
  /\ Get(files.output).w = Get(files.baseline).w
  /\ Get(files.output).h /= Get(files.baseline).h

\* C9 as stated: whenever a comparison is requested through visualTest or
\* expectVisualSnapshot and the baseline does not exist, the current output is
\* copied to the baseline path and success is reported, without a pixel
\* comparison and without a tolerance error.
C9_MissingBaselineAlwaysCreated ==
  [][ /\ (vt.pc = "generated" /\ files.baseline = Undefined) =>
           /\ files'.baseline = files.output
           /\ vt'.error = "none"
           /\ cmp' = cmp
      /\ (ev.pc = "start" /\ IsDefined(files.output) /\ files.baseline = Undefined) =>
           /\ files'.baseline = files.output
           /\ ev'.pass
           /\ cmp' = cmp ]_vars

\* C9, amended: with the current output present and the baseline missing,
\* expectVisualSnapshot, and visualTest unless updateBaseline is false, copy
\* the output to the baseline path and report success without starting a
\* comparison; visualTest with updateBaseline false fails with a
\* baseline-not-found error and writes no baseline.
C9_MissingBaselineCreatedUnlessDisabled ==
  /\ [][ /\ (vt.pc = "generated" /\ files.baseline = Undefined) =>
              /\ cmp.pc = "idle" /\ cmp' = cmp
              /\ vt'.pc = "finally"
              /\ IF vt.final.updateBaseline
                 THEN /\ IsDefined(files.output)
                      /\ files' = [files EXCEPT !.baseline = files.output]
                      /\ vt'.error = "none"
                 ELSE /\ files' = files
                      /\ vt'.error = "baseline"
         /\ (ev.pc = "start" /\ IsDefined(files.output) /\ files.baseline = Undefined) =>
              /\ cmp.pc = "idle" /\ cmp' = cmp
              /\ files' = [files EXCEPT !.baseline = files.output]
              /\ ev'.pc = "returned" /\ ev'.pass ]_vars
  /\ [](vt.pc \in {"returned", "threw"} => (vt.pc = "returned" <=> vt.error = "none"))

\* visualTest returned after it had created the missing baseline from the output
C9_Witness ==
  /\ entry = "visualTest"
  /\ vt.pc = "returned"
  /\ cmp.pc = "idle"
  /\ IsDefined(files.output)
  /\ files.baseline = files.output

\* C10: for one snapshot the stages run in the order capture (until the child
\* exits), normalize, render, write output, compare: the stream is normalized
\* only after the exit of the child has been handled, the renderer receives
\* the fully normalized stream, the output file is the rendered buffer, and
\* the comparison starts only when the output file has been written.
C10_StageOrder ==
  /\ pc \in (PostCapture \ {"resumed"}) =>
       /\ exitEvent.state = "handled"
       /\ ~childAlive
       /\ promise = "resolved"
  /\ IsDefined(renderOptions) =>
       /\ pc \in {"rendering", "templated", "rendered", "done", "failed"}
       /\ Get(renderOptions).data = cleanedData
       /\ cleanedData = WithoutSelectors(captured)
       /\ exitEvent.state = "handled"
  /\ IsDefined(terminal) =>
       /\ IsDefined(renderOptions)
       /\ Get(terminal).data = Get(renderOptions).data
  /\ IsDefined(buffer) =>
       /\ IsDefined(terminal)
       /\ pc \in {"rendered", "done"}
  /\ (entry \in {"createSnapshotFromPty", "fixedPtyRender", "visualTest"}
        /\ IsDefined(files.output)) =>
       /\ pc = "done"
       /\ files.output = buffer
  /\ (entry = "visualTest" /\ (vt.pc \in {"generated", "comparing"} \/ cmp.pc /= "idle")) =>
       /\ pc = "done"
       /\ IsDefined(files.output)

\* visualTest ran all five stages: output was captured, and the comparison
\* with the baseline returned
C10_Witness ==
  /\ entry = "visualTest"
  /\ Len(arrived) >= 1
  /\ pc = "done"
  /\ cmp.pc = "returned"
  /\ vt.pc = "returned"

(***************************************************************************)
(* Properties of the pure functions.                                       *)
(***************************************************************************)

\* the family names of a caller's list: its comma-separated entries, trimmed,
\* the empty ones dropped, in the order of the list
ListedFamilies(baseFamily) ==
  SelectSeq(TrimEach(Split(baseFamily, ",")), LAMBDA name : name /= <<>>)

\* an optional family argument that names a family (a non-empty string)
Given(family) == family /= Undefined /\ Get(family) /= <<>>

\* the position of the first occurrence of a name in a sequence that holds it
FirstIndex(seq, name) == CHOOSE i \in 1..Len(seq) : seq[i] = name /\ \A j \in 1..(i - 1) : seq[j] /= name

\* C2: the font stack holds each distinct family name exactly once: first the
\* emoji family (if given), then the bundled base family (if given), then the
\* remaining families of the caller's list in their original relative order.
C2_FontStackUniqueOrdered ==
  (pure.fn = "normaliseFamilies" /\ pure.done) =>
    LET stack == pure.result
        listed == ListedFamilies(pure.baseFamily)
        emoji == IF Given(pure.emojiFamily) THEN {Get(pure.emojiFamily)} ELSE {}
        base == IF Given(pure.bundledBaseFamily) THEN {Get(pure.bundledBaseFamily)} ELSE {}
        lead == Cardinality(emoji \cup base)
    IN  /\ \A i, j \in 1..Len(stack) : stack[i] = stack[j] => i = j
        /\ Range(stack) = emoji \cup base \cup Range(listed)
        /\ \A name \in emoji : stack[1] = name
        /\ \A name \in base : stack[IF emoji \in {{}, base} THEN 1 ELSE 2] = name
        /\ \A i, j \in (lead + 1)..Len(stack) :
             i < j => FirstIndex(listed, stack[i]) < FirstIndex(listed, stack[j])

\* the caller's list repeats a family and names the bundled base family, and
\* an emoji family is given: the stack holds each of the three once
C2_Witness ==
  /\ pure.fn = "normaliseFamilies"
  /\ pure.done
  /\ pure.baseFamily = <<"b", ",", "a", ",", "b">>
  /\ pure.emojiFamily = Some(<<"a", " ">>)
  /\ pure.bundledBaseFamily = Some(<<"a">>)
  /\ pure.result = << <<"a", " ">>, <<"a">>, <<"b">> >>

\* C3: normalization removes every U+FE0F and nothing else: the result holds
\* no U+FE0F, it is the input with its U+FE0F code units deleted (all others
\* kept, in order), and the count reported by createSnapshotFromPty is the
\* number of U+FE0F code units of the input.
C3_RemovesExactlyTheSelectors ==
  (pure.fn = "cleanAnsiData" /\ pure.done) =>
    LET kept == SelectSeq(pure.data, LAMBDA u : u /= VS16)
        selectors == {i \in 1..Len(pure.data) : pure.data[i] = VS16}
    IN  /\ \A i \in 1..Len(pure.result) : pure.result[i] /= VS16
        /\ pure.result = kept
        /\ pure.cleanedData = kept
        /\ pure.vsCount = Cardinality(selectors)
        /\ Len(pure.result) + Cardinality(selectors) = Len(pure.data)

\* a stream with two selectors, text and a joiner has been normalized
C3_Witness ==
  /\ pure.fn = "cleanAnsiData"
  /\ pure.done
  /\ pure.data = <<"m", VS16, "ZWJ", VS16>>
  /\ pure.result = <<"m", "ZWJ">>
  /\ pure.vsCount = 2

(***************************************************************************)
(* Properties of a failed capture, of the timeout and of the preset.       *)
(***************************************************************************)

\* C17: when the capture fails (timeout or non-zero exit) the function fails
\* outright: the partial output is not normalized, renderScreenshot is not
\* called (no options, no template, no buffer, no font config stored) and no
\* snapshot image is written to outputPath.
C17_NoSalvageAfterFailedCapture ==
  /\ error.kind \in {"timeout", "exit"} =>
       /\ pc = "failed"
       /\ promise = "rejected"
       /\ cleanedData = <<>> /\ vsCount = 0
       /\ renderOptions = Undefined
       /\ terminal = Undefined
       /\ buffer = Undefined
       /\ currentFontConfig = Undefined
       /\ files.output = Undefined
       /\ cmp.pc = "idle"
  /\ promise = "rejected" => error.kind \in {"timeout", "exit"}

\* the child wrote two chunks, one with a variation selector, and then exited
\* with a non-zero code: the capture failed with the partial output in the buffer
C17_Witness ==
  /\ error.kind = "exit"
  /\ Len(arrived) = 2
  /\ \E i \in 1..Len(captured) : captured[i] = VS16
  /\ pc = "failed"

\* the timeout the caller of the entry point asked for: the one given, else
\* 60,000 ms with the CI-optimized options (which carry it), else 30,000 ms
RequestedTimeout == IF IsDefined(callOpts.timeout) THEN Get(callOpts.timeout) ELSE 30000

\* C18: the timeout enforced on the PTY child is the one the caller gave
\* (60,000 ms when fixedPtyRender is called with getCIOptimizedConfig()'s
\* options), and 30,000 ms when the caller gave none.
C18_EnforcedTimeoutIsRequested ==
  IsDefined(pty) =>
    /\ EffectiveTimeout(opts) = RequestedTimeout
    /\ timer.state /= "none" => timer.ms = RequestedTimeout

\* C19: with timeout 0 createSnapshotFromPty arms no timer and never kills
\* the child: the capture is pending as long as the child runs and settles
\* only through the exit handler.
C19_ZeroTimeoutNeverKills ==
  (IsDefined(pty) /\ EffectiveTimeout(opts) = 0) =>
    /\ timer.state = "none"
    /\ killCalls = 0
    /\ error.kind /= "timeout"
    /\ childAlive => promise = "pending"
    /\ promise /= "pending" => exitEvent.state = "handled"

\* called with timeout 0, the child exited by itself and the snapshot was written
C19_Witness ==
  /\ entry = "createSnapshotFromPty"
  /\ callOpts.timeout = Some(0)
  /\ promise = "resolved"
  /\ pc = "done"

\* C20: visualTest with a preset name (from its options or the configuration
\* file) that is not in the presets table throws an error that lists the
\* available presets, with no directory or file created and no process spawned.
C20_UnknownPresetFailsFast ==
  LET merged == [f \in DOMAIN vt.options |->
                   IF vt.options[f] /= Undefined THEN vt.options[f] ELSE vt.config[f]]
      unknown == merged.preset /= Undefined
                   /\ Get(merged.preset) \notin DOMAIN TERMINAL_PRESETS
  IN  /\ (entry = "visualTest" /\ unknown /\ vt.pc /= "start") =>
           /\ vt.pc = "threw"
           /\ vt.error = "preset"
           /\ {"standard", "ci", "tiny"} \subseteq vt.available
           /\ Get(merged.preset) \notin vt.available
           /\ dirs = {} /\ tempFiles = {}
           /\ files.output = Undefined /\ files.diff = Undefined
           /\ pty = Undefined /\ pc = "idle" /\ promise = "none"
           /\ cmp.pc = "idle"
      /\ vt.error = "preset" => unknown

\* visualTest threw for the preset "bogus" although the options also give a size
C20_Witness ==
  /\ vt.pc = "threw"
  /\ vt.error = "preset"
  /\ vt.options.preset = Some("bogus")
  /\ vt.options.cols = Some(3)

\* C16: normalization is idempotent: cleanAnsiData applied to
\* cleanAnsiData(s) returns cleanAnsiData(s) unchanged.
C16_NormalizationIdempotent ==
  (pure.fn = "cleanAnsiData" /\ pure.again) => pure.second = pure.result

\* a stream of three selectors around a joiner was normalized twice
C16_Witness ==
  /\ pure.fn = "cleanAnsiData"
  /\ pure.again
  /\ pure.data = <<VS16, VS16, "ZWJ", VS16>>
  /\ pure.second = <<"ZWJ">>


(***************************************************************************)
(* Properties of the shared slot under several withEmojiFontConfig calls.  *)
(***************************************************************************)

\* the config a call's own template generation is meant to see: the one the
\* call stored, none when the guard skipped the slot
Own(c) == IF Stores(calls[c].config) THEN calls[c].config ELSE Undefined

Serialized == \A c \in DOMAIN calls : ~calls[c].overlapped

\* C11: a template generation runs with a config other than its own call's
\* only in a call that overlapped another one; calls that are serialized
\* always generate their template with their own config.  (The witness is the
\* unsafe overlap itself: one call's template used the other call's config and
\* the other call's template ran with none, after the first call's cleanup.)
C11_ForeignConfigOnlyWhenOverlapped ==
  \A c \in DOMAIN calls :
    (calls[c].templated /\ calls[c].used /= Own(c)) => calls[c].overlapped

C11_Witness ==
  /\ DOMAIN calls = 1..2
  /\ Stores(calls[1].config) /\ Stores(calls[2].config)
  /\ calls[1].config /= calls[2].config
  /\ calls[1].overlapped /\ calls[2].overlapped
  /\ calls[1].templated /\ calls[1].used = calls[2].config
  /\ calls[2].templated /\ calls[2].used = Undefined

Before(a, b) ==
  \E i, j \in DOMAIN page.log : i < j /\ page.log[i] = a /\ page.log[j] = b

\* C13: in every render, once the data has been written to the terminal,
\* the Unicode 11 addon was loaded and activated before the write, or, where
\* the addon is unavailable or throws, an error was logged before the write.
C13_Unicode11BeforeWrite ==
  IsDefined(page.written) =>
    \/ Before("unicode11", "write") /\ page.activeVersion = "11"
    \/ page.addon /= "available" /\ Before("console.error", "write")

\* C14: in every render, once the data has been written to the terminal,
\* the font-load barrier had settled (resolved or rejected) before the write.
C14_WriteAfterFontBarrier ==
  IsDefined(page.written) =>
    Before("resolved", "write") \/ Before("rejected", "write")


(***************************************************************************)
(* Properties of batchVisualTestParallel.                                  *)
(***************************************************************************)

InFlight == {t \in 1..batch.n : batch.status[t] = "running"}

Settled(t) == batch.status[t] \in {"passed", "failed"}

\* what the sentence asks of a run: at most `concurrency` test cases in
\* flight; a test case started in the chunk its position puts it in, and only
\* when every test case of the earlier chunks has settled; a failed test
\* case stops nothing, so that on return every test case has settled and
\* has its result
ChunkDiscipline ==
  /\ InFlight /= {} => Cardinality(InFlight) <= batch.concurrency
  /\ \A s, t \in 1..batch.n :
       (IsDefined(batch.startedAt[s]) /\ IsDefined(batch.startedAt[t])
        /\ Get(batch.startedAt[s]) < Get(batch.startedAt[t])) => Settled(s)
  /\ \A t \in 1..batch.n :
       (batch.concurrency >= 1 /\ IsDefined(batch.startedAt[t])) =>
         /\ Get(batch.startedAt[t]) = ((t - 1) \div batch.concurrency) * batch.concurrency
         /\ \A s \in 1..(t - 1) : IsDefined(batch.startedAt[s])
  /\ batch.pc = "done" =>
       /\ \A t \in 1..batch.n : Settled(t)
       /\ Len(batch.results) = batch.n

C21_DiffWrittenPastDimensionCheck ==
  /\ (cmp.pc = "returned" \/ (cmp.pc = "threw" /\ cmp.error = "tolerance")) =>
       /\ cmp.matched
       /\ "diff" \in dirs
       /\ files.diff = Some(DiffImage(Get(files.output), Get(files.baseline), cmp.threshold))
  /\ (cmp.pc = "threw" /\ cmp.error \in {"read", "dimension"}) =>
       (~cmp.matched /\ files.diff = Undefined)

C21_Witness ==
  /\ entry = "comparePng"
  /\ cmp.pc = "returned"
  /\ cmp.diffPixels = 1 /\ cmp.maxDiffPixels = 1
  /\ IsDefined(files.diff)
  /\ \E i \in 1..NPix : Get(files.diff).px[i] = 1


(***************************************************************************)
(* Properties of the template's font stack and @font-face blocks.          *)
(***************************************************************************)

\* the families of the generated template's stack
StackFamilies == Range(Get(terminal).fontFamilies)

HasFontFace(family) ==
  \E face \in Get(terminal).fontFaces : FaceFamilyName(face) = family /\ face.path /= ""

\* C22 as stated: in every generated template every family of the stack
\* that is not a generic CSS family has an @font-face block with a file path.
C22_EveryStackFamilyHasFontFace ==
  IsDefined(terminal) =>
    \A family \in StackFamilies : NotGeneric(family) => HasFontFace(family)

\* family is the emoji (base) family and was given together with its font path
GivenWithPath(family) ==
  \/ opts.emojiFontFamily = Some(family) /\ TruthyPath(opts.emojiFontPath)
  \/ opts.baseFontFamily = Some(family) /\ TruthyPath(opts.baseFontPath)

\* C22, amended: in every generated template a family of the stack has an
\* @font-face block exactly when it is the emoji or base family and was given
\* together with its font path, and the block then carries that path; every
\* other family of the stack (the caller's or default fallback list, a family
\* given without a path) is in the stack without a block.
C22_FontFaceForFamiliesGivenWithPath ==
  IsDefined(terminal) =>
    /\ \A family \in StackFamilies : HasFontFace(family) <=> GivenWithPath(family)
    /\ \A face \in Get(terminal).fontFaces :
         \/ face.family = opts.emojiFontFamily /\ Some(face.path) = opts.emojiFontPath
         \/ face.family = opts.baseFontFamily /\ Some(face.path) = opts.baseFontPath

C22_Witness ==
  /\ IsDefined(terminal)
  /\ Get(terminal).fontFamilies = <<InkSnapshotEmojiMono, InkSnapshotBaseMono, DejaVuSansMono,
                                    NotoSansMonoCJK, monospace>>
  /\ HasFontFace(InkSnapshotEmojiMono) /\ HasFontFace(InkSnapshotBaseMono)
  /\ ~HasFontFace(DejaVuSansMono) /\ NotGeneric(DejaVuSansMono)

\* C29: every @font-face block of a generated template names a family that
\* is a member of the template's font stack.
C29_FontFaceFamiliesAreInStack ==
  IsDefined(terminal) =>
    \A face \in Get(terminal).fontFaces : FaceFamilyName(face) \in StackFamilies


(***************************************************************************)
(* Properties of the CI configuration.                                     *)
(***************************************************************************)

\* C23: getCIOptimizedConfig called with no arguments returns a bundled base
\* font (path and family defined) and a bundled emoji font (path and family
\* defined): its default emoji key is an entry of EMOJI_FONT_OPTIONS that
\* has a path and a family.
C23_DefaultCIConfigUsesBundledFonts ==
  (pure.fn = "getCIOptimizedConfig" /\ pure.done /\ pure.arguments = NoArguments) =>
    /\ IsDefined(pure.result.baseFontPath) /\ IsDefined(pure.result.baseFontFamily)
    /\ IsDefined(pure.result.emojiFontPath) /\ IsDefined(pure.result.emojiFontFamily)


(***************************************************************************)
(* Properties of visualTest's option merging.                              *)
(***************************************************************************)

\* visualTest has merged its options and found its preset, if one is named
Configured == entry = "visualTest" /\ vt.pc \notin {"idle", "start"} /\ vt.error /= "preset"

\* the preset the call names: the caller's, else the config file's
NamedPreset == IF IsDefined(vt.options.preset) THEN vt.options.preset ELSE vt.config.preset

\* C24 as stated: whenever a preset is named and the caller's options carry
\* no cols and rows value, the preset's cols and rows are the effective ones.
C24_PresetUsedWhenOptionsCarryNoSize ==
  (Configured /\ IsDefined(NamedPreset)
   /\ ~IsDefined(vt.options.cols) /\ ~IsDefined(vt.options.rows)) =>
    /\ vt.final.cols = TERMINAL_PRESETS[Get(NamedPreset)].cols
    /\ vt.final.rows = TERMINAL_PRESETS[Get(NamedPreset)].rows

\* the size the precedence rules give for the property f, with its default
Effective(f, default) ==
  IF IsDefined(vt.options[f]) THEN Get(vt.options[f])
  ELSE IF f \in vt.options.undef THEN default
  ELSE IF IsDefined(vt.config[f]) THEN Get(vt.config[f])
  ELSE IF IsDefined(NamedPreset) THEN TERMINAL_PRESETS[Get(NamedPreset)][f]
  ELSE default

\* C24, amended: the effective cols and rows are the caller's option if it
\* has a value; else the default 80x24 if the caller wrote the property out
\* as undefined; else the config file's value; else the named preset's; else
\* the default.  So a named preset gives the size only when neither the
\* caller's options nor the config file carry cols and rows.
C24_SizePrecedence ==
  Configured =>
    /\ vt.final.cols = Effective("cols", 80)
    /\ vt.final.rows = Effective("rows", 24)

\* the caller names the preset tiny (40x15), the config file gives 2x1: 2x1 it is
C24_Witness ==
  /\ Configured
  /\ vt.options.preset = Some("tiny")
  /\ ~Carries(vt.options, "cols") /\ ~Carries(vt.options, "rows")
  /\ vt.config.cols = Some(2) /\ vt.config.rows = Some(1)
  /\ vt.final.cols = 2 /\ vt.final.rows = 1


(***************************************************************************)
(* Properties of the capture promise under the orderings of timer and exit. *)
(***************************************************************************)

\* C25 as stated, its last part: pty.kill() is never called on a child that
\* has already exited.
C25_KillOnlyOnRunningChild == [][killCalls' /= killCalls => childAlive]_vars

\* C25, amended: the capture promise settles exactly once, whatever the
\* order of timer and exit events: a settled promise keeps its outcome and
\* its error, so the exit event of a killed child changes nothing after a
\* timeout rejection.  pty.kill() is called at most once and only by the
\* timer callback; once the exit handler has run the timer is cleared and
\* never fires.  (A timer that fires after the child has ended and before
\* its exit event is handled does call pty.kill() on the ended child.)
C25_SettlesOnceKillOnlyBeforeExitHandled ==
  /\ [][/\ promise \in {"resolved", "rejected"} => promise' = promise
        /\ promise = "rejected" => (error' = error /\ pc' = pc)
        /\ killCalls' /= killCalls =>
             (timer.state = "armed" /\ timer'.state = "fired" /\ exitEvent.state /= "handled")
        /\ timer.state = "cleared" => timer'.state = "cleared"]_vars
  /\ [](/\ killCalls <= 1
        /\ killCalls = 1 <=> timer.state = "fired"
        /\ timer.state = "cleared" => exitEvent.state = "handled"
        /\ (promise = "rejected" /\ pc = "failed") => error.kind \in {"timeout", "exit"}
        /\ promise = "resolved" => (exitEvent.state = "handled" /\ error.kind /= "timeout"))

\* the timer fired first and rejected; the killed child's exit event, with
\* code 0, has been handled since and the capture is still the timeout failure
C25_Witness ==
  /\ entry = "createSnapshotFromPty"
  /\ timer.state = "fired" /\ killCalls = 1
  /\ exitEvent = [state |-> "handled", code |-> Num(0)]
  /\ promise = "rejected" /\ error.kind = "timeout" /\ pc = "failed"


\* C26: with a timeout greater than 0 every capture eventually settles,
\* whatever the child does: once the PTY is spawned the capture promise is
\* eventually resolved or rejected.
C26_CaptureEventuallySettles ==
  (IsDefined(pty) /\ EffectiveTimeout(opts) > 0) ~> (promise \in {"resolved", "rejected"})

\* the child never wrote and never exited by itself: the timer ended the capture
C26_Witness ==
  /\ EffectiveTimeout(opts) > 0
  /\ arrived = <<>>
  /\ timer.state = "fired"
  /\ promise = "rejected" /\ error.kind = "timeout"
  /\ exitEvent.state = "queued"


\* the results name the test cases 1..n, each once, in input order
OneResultPerTestInOrder ==
  /\ Len(batch.results) = batch.n
  /\ \A k \in 1..batch.n : batch.results[k].test = k

\* C27: batchVisualTestParallel terminates for every test-case list and
\* every concurrency value, 0 and negative values included, and returns
\* exactly one result per test case, in input order.
C27_ParallelBatchTerminates ==
  /\ <>(batch.pc = "done")
  /\ [](batch.pc = "done" => OneResultPerTestInOrder)


\* C28: batchVisualTest runs the test cases one at a time in input order:
\* at most one is running, and only when all earlier ones have settled and
\* none of the later ones has started; a test case that throws stops
\* nothing; the returned list has one entry per test case, in input order,
\* passed exactly when visualTest did not throw and otherwise carrying the
\* error's message.
C28_SequentialBatchOneResultEach ==
  /\ \A t \in 1..batch.n :
       batch.status[t] /= "pending" =>
         /\ \A s \in 1..(t - 1) : batch.status[s] = "settled"
         /\ batch.status[t] = "running" => \A u \in (t + 1)..batch.n : batch.status[u] = "pending"
  /\ Cardinality({t \in 1..batch.n : batch.status[t] = "running"}) <= 1
  /\ \A k \in 1..Len(batch.results) :
       /\ batch.results[k].test = k
       /\ batch.status[k] = "settled"
       /\ batch.results[k].passed <=> ~batch.outcome[k].threw
       /\ batch.results[k].error =
            (IF batch.outcome[k].threw THEN {batch.outcome[k].message} ELSE {})
  /\ batch.pc = "done" =>
       /\ Len(batch.results) = batch.n
       /\ \A t \in 1..batch.n : batch.status[t] = "settled"

\* the first of three test cases threw, the last one passed, all three reported
C28_Witness ==
  /\ batch.pc = "done" /\ batch.n = 3
  /\ batch.outcome[1].threw /\ ~batch.results[1].passed
  /\ batch.results[1].error = {"Baseline not found"}
  /\ batch.results[3].passed

\* C30: visualTest never modifies or deletes an existing baseline: in every
\* step of a visualTest call that starts from a state with a baseline file,
\* the baseline file is the same afterwards, whichever way the call ends (the
\* comparison passes, exceeds the tolerance, meets a dimension mismatch, or
\* the snapshot generation throws).
C30_ExistingBaselineUntouched ==
  [][(entry = "visualTest" /\ IsDefined(files.baseline)) => files'.baseline = files.baseline]_vars

\* visualTest threw because the tolerance was exceeded: the fresh output and the
\* diff image are on disk next to a baseline that differs from the output
C30_Witness ==
  /\ entry = "visualTest" /\ vt.pc = "threw" /\ vt.error = "tolerance"
  /\ IsDefined(files.baseline) /\ IsDefined(files.output) /\ IsDefined(files.diff)
  /\ files.output /= files.baseline

====
